---- MODULE Spec2Model ----
(***************************************************************************)
(* Artifact service of RainaV2-Backend-Mono: the versioned artifact store  *)
(* (routers/artifact_routes.py over dal/artifact_dal.py), the workspace    *)
(* event consumer, and the registry service's adapter DSL.                 *)
(*                                                                         *)
(* One workspace id is modelled; every request targets it.  Timestamps     *)
(* (created_at / updated_at) are left out, deleted_at is a flag.           *)
(***************************************************************************)
EXTENDS Integers, Sequences, FiniteSets, TLC

\* ------------------------------------------------------------------ bounds
MaxRequests == 3       \* HTTP requests issued in one behaviour, over all callers
MaxApply == 2          \* times one adapter rule is applied to a document in a row

Callers == {"c1", "c2"}

\* ------------------------------------------------------------- JSON values
\* A JSON value is a tagged record; an object keeps its keys in insertion
\* order (a Python dict), as a sequence of key/value pairs.
Null == [t |-> "null", v |-> 0]
Num(n) == [t |-> "num", v |-> n]
Str(s) == [t |-> "str", v |-> s]
Arr(xs) == [t |-> "arr", v |-> xs]
Obj(ps) == [t |-> "obj", v |-> ps]
KV(key, val) == [k |-> key, v |-> val]

IsObj(x) == x.t = "obj"
IsArr(x) == x.t = "arr"

\* the object keys used by the model, in the order sort_keys puts them
KeyOrder == <<"0", "1", "a", "b", "c", "items">>

HasKey(o, key) == \E i \in DOMAIN o.v : o.v[i].k = key

KeyPos(o, key) == CHOOSE i \in DOMAIN o.v : o.v[i].k = key

ObjGet(o, key) == o.v[KeyPos(o, key)].v

\* cur[p] = value on a dict: in place when the key exists, appended otherwise
ObjPut(o, key, val) ==
  IF HasKey(o, key)
    THEN Obj([i \in DOMAIN o.v |-> IF o.v[i].k = key THEN KV(key, val) ELSE o.v[i]])
    ELSE Obj(Append(o.v, KV(key, val)))

\* del cur[p]
ObjDel(o, key) == Obj(SelectSeq(o.v, LAMBDA kv : kv.k # key))

RECURSIVE Canon(_)
\* json.dumps(obj, sort_keys=True, separators=(",", ":")): the serialisation is
\* represented by the value with every object's keys in sorted order
Canon(x) ==
  IF IsObj(x)
    THEN LET ks == SelectSeq(KeyOrder, LAMBDA key : HasKey(x, key))
         IN Obj([i \in DOMAIN ks |-> KV(ks[i], Canon(ObjGet(x, ks[i])))])
    ELSE IF IsArr(x)
      THEN Arr([i \in DOMAIN x.v |-> Canon(x.v[i])])
      ELSE x

\* json.dumps without sort_keys: keys stay in insertion order
CanonUnsorted(x) == x

_canonical(obj) == Canon(obj)

\* hashlib.sha256(...).hexdigest(), taken as collision free on the model's values
_sha256(s) == [sha256 |-> s]

\* Python's == on JSON values (dict equality ignores key order)
JsonEq(x, y) == Canon(x) = Canon(y)

\* ------------------------------------------------------------ dotted paths
\* A dotted path is held as path.split("."), the sequence of its parts.
\* int(part) succeeds on the parts that are decimal numerals; the model's paths
\* use these two.
Numerals == <<"0", "1">>

IsNumeral(part) == \E i \in DOMAIN Numerals : Numerals[i] = part

int(part) == (CHOOSE i \in DOMAIN Numerals : Numerals[i] = part) - 1

\* an exception leaving the function (ValueError, IndexError)
Raise == [t |-> "raise", v |-> 0]

\* while len(cur) <= idx: cur.append(fill)
Pad(xs, idx, fill) ==
  [i \in 1..(IF Len(xs) > idx THEN Len(xs) ELSE idx + 1) |->
     IF i <= Len(xs) THEN xs[i] ELSE fill]

\* cur.pop(idx)
Pop(xs, idx) == [i \in 1..(Len(xs) - 1) |-> IF i <= idx THEN xs[i] ELSE xs[i + 1]]

RECURSIVE _dot_get(_, _, _)
_dot_get(cur, parts, default) ==
  IF parts = <<>> THEN cur
  ELSE LET part == Head(parts) IN
    IF IsArr(cur)
      THEN IF IsNumeral(part) /\ int(part) < Len(cur.v)
             THEN _dot_get(cur.v[int(part) + 1], Tail(parts), default)
             ELSE default
      ELSE IF IsObj(cur)
        THEN IF HasKey(cur, part)
               THEN _dot_get(ObjGet(cur, part), Tail(parts), default)
               ELSE default
        ELSE default

RECURSIVE _dot_set(_, _, _)
\* the container after the in-place write, or Raise
_dot_set(cur, parts, value) ==
  LET p == Head(parts) IN
  IF Len(parts) = 1
    THEN IF IsObj(cur) THEN ObjPut(cur, p, value)
         ELSE IF IsArr(cur)
           THEN IF IsNumeral(p)
                  THEN Arr([Pad(cur.v, int(p), Null) EXCEPT ![int(p) + 1] = value])
                  ELSE Raise
           ELSE Raise
    ELSE IF IsObj(cur)
      THEN LET nxt == IF HasKey(cur, p) /\ (IsObj(ObjGet(cur, p)) \/ IsArr(ObjGet(cur, p)))
                        THEN ObjGet(cur, p) ELSE Obj(<<>>)
               sub == _dot_set(nxt, Tail(parts), value)
           IN IF sub = Raise THEN Raise ELSE ObjPut(cur, p, sub)
      ELSE IF IsArr(cur)
        THEN IF IsNumeral(p)
               THEN LET grown == Pad(cur.v, int(p), Obj(<<>>))
                        sub == _dot_set(grown[int(p) + 1], Tail(parts), value)
                    IN IF sub = Raise THEN Raise
                       ELSE Arr([grown EXCEPT ![int(p) + 1] = sub])
               ELSE Raise
        ELSE Raise

RECURSIVE _dot_delete(_, _)
\* the container after the in-place removal, or Raise
_dot_delete(cur, parts) ==
  LET p == Head(parts) IN
  IF Len(parts) > 1
    THEN IF IsObj(cur) /\ HasKey(cur, p)
           THEN LET sub == _dot_delete(ObjGet(cur, p), Tail(parts))
                IN IF sub = Raise THEN Raise ELSE ObjPut(cur, p, sub)
           ELSE IF IsArr(cur)
             THEN IF IsNumeral(p) /\ int(p) < Len(cur.v)
                    THEN LET sub == _dot_delete(cur.v[int(p) + 1], Tail(parts))
                         IN IF sub = Raise THEN Raise
                            ELSE Arr([cur.v EXCEPT ![int(p) + 1] = sub])
                    ELSE Raise
             ELSE cur
    ELSE IF IsObj(cur) /\ HasKey(cur, p) THEN ObjDel(cur, p)
         ELSE IF IsArr(cur)
           THEN IF IsNumeral(p)
                  THEN IF int(p) < Len(cur.v) THEN Arr(Pop(cur.v, int(p))) ELSE cur
                  ELSE Raise
           ELSE cur


\* ------------------------------------------------------------- adapter DSL
\* cur in (None, "", [], {})
Falsy(cur) == cur = Null \/ cur = Str("") \/ cur = Arr(<<>>) \/ cur = Obj(<<>>)

\* one entry of dsl["move"]: read, and when a value is there, write and delete
MoveStep(out, src, dst) ==
  LET val == _dot_get(out, src, Null) IN
  IF val = Null THEN out
  ELSE LET written == _dot_set(out, dst, val)
       IN IF written = Raise THEN Raise ELSE _dot_delete(written, src)

\* one entry of dsl["defaults"]
DefaultStep(out, p, v) ==
  IF Falsy(_dot_get(out, p, Null)) THEN _dot_set(out, p, v) ELSE out

RECURSIVE MoveAll(_, _)
MoveAll(out, moves) ==
  IF out = Raise \/ moves = <<>> THEN out
  ELSE MoveAll(MoveStep(out, Head(moves).src, Head(moves).dst), Tail(moves))

RECURSIVE SetAll(_, _)
SetAll(out, sets) ==
  IF out = Raise \/ sets = <<>> THEN out
  ELSE SetAll(_dot_set(out, Head(sets).p, Head(sets).v), Tail(sets))

RECURSIVE DefaultAll(_, _)
DefaultAll(out, defs) ==
  IF out = Raise \/ defs = <<>> THEN out
  ELSE DefaultAll(DefaultStep(out, Head(defs).p, Head(defs).v), Tail(defs))

RECURSIVE DeleteAll(_, _)
DeleteAll(out, paths) ==
  IF out = Raise \/ paths = <<>> THEN out
  ELSE DeleteAll(_dot_delete(out, Head(paths)), Tail(paths))

\* move, then set, then defaults, then delete, each in the dict's own order
_apply_adapter_dsl(data, dsl) ==
  DeleteAll(DefaultAll(SetAll(MoveAll(data, dsl.move), dsl.set), dsl.defaults), dsl.delete)

\* the documents and the rules the adapter is run on
DocInputs ==
  { Obj(<<>>),
    Obj(<<KV("a", Num(5))>>),
    Obj(<<KV("a", Str(""))>>),
    Obj(<<KV("items", Arr(<<Num(1), Num(2)>>))>>),
    Obj(<<KV("a", Num(5)), KV("items", Arr(<<Num(1), Num(2)>>))>>),
    Obj(<<KV("b", Obj(<<KV("c", Num(1))>>))>>) }

MoveInputs ==
  { <<>>,
    <<[src |-> <<"a">>, dst |-> <<"b">>]>>,
    <<[src |-> <<"items", "0">>, dst |-> <<"c">>]>>,
    <<[src |-> <<"b", "c">>, dst |-> <<"a">>]>> }

SetInputs ==
  { <<>>,
    <<[p |-> <<"a">>, v |-> Num(1)]>>,
    <<[p |-> <<"items", "1">>, v |-> Num(9)]>>,
    <<[p |-> <<"b", "c">>, v |-> Num(2)]>> }

DefaultsInputs ==
  { <<>>,
    <<[p |-> <<"a">>, v |-> Num(7)]>>,
    <<[p |-> <<"items", "0">>, v |-> Num(7)]>> }

DeleteInputs ==
  { <<>>,
    <<<<"a">>>>,
    <<<<"items", "0">>>>,
    <<<<"b", "c">>>> }

DslInputs ==
  { [move |-> m, set |-> st, defaults |-> df, delete |-> dl] :
      m \in MoveInputs, st \in SetInputs, df \in DefaultsInputs, dl \in DeleteInputs }

\* ------------------------------------------------------- request vocabulary
\* kinds a request may name (ArtifactKind): an alias of a registered kind, and
\* one the seeded registry knows neither as an id nor as an alias
KindInputs == {"cam.erd", "cam.document"}

NameInputs == {"Doc"}

DataInputs ==
  { Obj(<<KV("a", Num(1))>>),
    Obj(<<KV("a", Num(1)), KV("b", Num(1))>>),
    Obj(<<KV("b", Num(1)), KV("a", Num(1))>>) }

\* body.patch of ArtifactItemPatchIn: a list of RFC 6902 operations
PatchInputs ==
  { <<[op |-> "replace", path |-> "a", value |-> Num(2)]>>,
    <<[op |-> "add", path |-> "b", value |-> Num(1)]>> }

\* body.provenance; "none" is None
ProvInputs == {"agent"}

\* the If-Match header; "absent" is a request without the header
IfMatchInputs == {"absent", "1", "2", "W/1"}

\* the artifact ids a request may name
ArtifactIds == {1, 2}

\* ---------------------------------------------------------- kind registry
\* seed_registry.py: ALIASES maps a canonical kind to its alias ids
ALIASES == [k \in {"cam.diagram.class"} |-> {"cam.erd"}]

RegisteredKinds == DOMAIN ALIASES

NoKind == "none"

_get_kind_doc_unresolved(kind_or_alias) ==
  IF kind_or_alias \in RegisteredKinds \/ \E kd \in RegisteredKinds : kind_or_alias \in ALIASES[kd]
    THEN kind_or_alias
    ELSE NoKind

\* KindRegistryService._get_kind_doc: the kind id itself, else the owner of the alias
_get_kind_doc(kind_or_alias) ==
  IF kind_or_alias \in RegisteredKinds
    THEN kind_or_alias
    ELSE IF \E kd \in RegisteredKinds : kind_or_alias \in ALIASES[kd]
      THEN CHOOSE kd \in RegisteredKinds : kind_or_alias \in ALIASES[kd]
      ELSE NoKind

\* str.strip().lower() on the names of the model
StripLower(name) ==
  CASE name = "Doc" -> "doc"
    [] OTHER -> name

\* A Python str is held as the sequence of its characters.  A kind id is held
\* as one element: a block of lower-case characters without white space.
Chars(s) ==
  CASE s = "Doc" -> <<"D", "o", "c">>
    [] s = "" -> <<>>
    [] OTHER -> <<s>>

RECURSIVE Flat(_)
\* the str whose characters a sequence lists
Flat(text) == IF text = <<>> THEN "" ELSE Head(text) \o Flat(Tail(text))

IsSpace(ch) == ch = " "

\* str.lower() on one character
LowerOf(ch) ==
  CASE ch = "D" -> "d"
    [] ch = "A" -> "a"
    [] ch = "N" -> "n"
    [] ch = "CAM.X" -> "cam.x"
    [] OTHER -> ch

str_lower(text) == [i \in DOMAIN text |-> LowerOf(text[i])]

RECURSIVE str_lstrip(_)
str_lstrip(text) ==
  IF text # <<>> /\ IsSpace(Head(text)) THEN str_lstrip(Tail(text)) ELSE text

RECURSIVE str_rstrip(_)
str_rstrip(text) ==
  IF text # <<>> /\ IsSpace(text[Len(text)])
    THEN str_rstrip(SubSeq(text, 1, Len(text) - 1))
    ELSE text

\* str.strip()
str_strip(text) == str_rstrip(str_lstrip(text))

RECURSIVE str_join(_, _)
\* sep.join(parts)
str_join(sep, parts) ==
  IF parts = <<>> THEN <<>>
  ELSE IF Len(parts) = 1 THEN parts[1]
  ELSE parts[1] \o sep \o str_join(sep, Tail(parts))

\* the decimal digits of the model's numbers
Digits == <<"0", "1", "2">>

RECURSIVE repr(_)
\* Python's repr() of a JSON value: a dict is written in insertion order
repr(x) ==
  CASE x.t = "null" -> <<"N", "o", "n", "e">>
    [] x.t = "num" -> <<Digits[x.v + 1]>>
    [] x.t = "str" -> <<"'">> \o x.v \o <<"'">>
    [] x.t = "arr" ->
         <<"[">> \o str_join(<<",", " ">>, [i \in DOMAIN x.v |-> repr(x.v[i])]) \o <<"]">>
    [] x.t = "obj" ->
         <<"{">> \o str_join(<<",", " ">>,
                             [i \in DOMAIN x.v |->
                                <<"'", x.v[i].k, "'", ":", " ">> \o repr(x.v[i].v)])
                \o <<"}">>

\* str(value): a str is itself, anything else is its repr
str(x) == IF x.t = "str" THEN x.v ELSE repr(x)

\* an identity rule: "natural_key" is a list of dotted paths, one path, or absent
NoNaturalKey == [t |-> "none", v |-> <<>>]

PathList(paths) == [t |-> "list", v |-> paths]

OnePath(path) == [t |-> "str", v |-> path]

\* seed_registry.identity_for: {"natural_key": ["name"], ...}
SeededIdentity == [natural_key |-> PathList(<< <<"name">> >>)]

\* "str(_dot_get({'data': data, 'name': name}, str(p), default='')).strip().lower()"
NkPart(name, data, path) ==
  str_lower(str_strip(str(_dot_get(Obj(<<KV("data", data), KV("name", Str(name))>>),
                                   path, Str(<<>>)))))

\* "Fallback: kind + name": f"{kind_id}:{name}".lower().strip()
NkFallback(kind_id, name) == str_strip(str_lower(kind_id \o <<":">> \o name))

\* _compute_natural_key
_compute_natural_key(kind_id, name, ident_spec, data) ==
  LET nk == ident_spec.natural_key
  IN CASE nk.t = "list" /\ nk.v # <<>> ->
            LET parts == SelectSeq([i \in DOMAIN nk.v |-> NkPart(name, data, nk.v[i])],
                                   LAMBDA p : p # <<>>)
            IN IF parts # <<>>
                 THEN kind_id \o <<":">> \o str_join(<<":">>, parts)
                 ELSE NkFallback(kind_id, name)
       [] nk.t = "str" /\ nk.v # <<>> ->
            LET val == NkPart(name, data, nk.v)
            IN IF val # <<>>
                 THEN kind_id \o <<":">> \o val
                 ELSE NkFallback(kind_id, name)
       [] OTHER -> NkFallback(kind_id, name)

FingerprintInsertionOrder(data) == _sha256(CanonUnsorted(data))

\* build_envelope step 5: fingerprint = _sha256(_canonical(adapted))
Fingerprint(data) == _sha256(_canonical(data))

\* KindRegistryService.build_envelope; the seeded schema versions carry no
\* adapters and no migrators, so adapted = data, and their identity rule is
\* identity_for(kind)
build_envelope(kind_or_alias, name, data) ==
  LET kd == _get_kind_doc(kind_or_alias)
  IN [ok |-> kd # NoKind,
      kind |-> kd,
      name |-> name,
      data |-> data,
      natural_key |-> IF kd = NoKind THEN ""
                      ELSE Flat(_compute_natural_key(<<kd>>, Chars(name), SeededIdentity, data)),
      fingerprint |-> Fingerprint(data)]

\* ------------------------------------------- schema versions and migrators
\* safety_counter < 50
HopBound == 50

\* version strings; "none" is None, "v0" is a version no kind has
NoVersion == "none"

Versions == {"v1", "v2", "v3"}

NoDsl == [move |-> <<>>, set |-> <<>>, defaults |-> <<>>, delete |-> <<>>]

\* the reshape rules of the migrators used below
DslAtoB == [NoDsl EXCEPT !.move = <<[src |-> <<"a">>, dst |-> <<"b">>]>>]

DslBtoC == [NoDsl EXCEPT !.move = <<[src |-> <<"b">>, dst |-> <<"c">>]>>]

DslBtoA == [NoDsl EXCEPT !.move = <<[src |-> <<"b">>, dst |-> <<"a">>]>>]

Migrator(from, to, dsl) == [from_version |-> from, to_version |-> to, type |-> "dsl", dsl |-> dsl]

\* a schema version entry of a kind document; present = FALSE stands for a
\* version the kind document does not list
NoEntry == [present |-> FALSE, version |-> NoVersion, migrators |-> <<>>, adapters |-> <<>>]

Entry(v, migrators, adapters) ==
  [present |-> TRUE, version |-> v, migrators |-> migrators, adapters |-> adapters]

\* kind documents: latest_schema_version and schema_versions
ChainKind ==
  [latest |-> "v3",
   entries |-> [v \in Versions |->
      CASE v = "v1" -> Entry("v1", <<Migrator("v1", "v2", DslAtoB)>>, <<>>)
        [] v = "v2" -> Entry("v2", <<Migrator("v2", "v3", DslBtoC)>>, <<>>)
        [] OTHER -> Entry("v3", <<>>, <<>>)]]

CycleKind ==
  [latest |-> "v3",
   entries |-> [v \in Versions |->
      CASE v = "v1" -> Entry("v1", <<Migrator("v1", "v2", DslAtoB)>>, <<>>)
        [] v = "v2" -> Entry("v2", <<Migrator("v2", "v1", DslBtoA)>>, <<>>)
        [] OTHER -> Entry("v3", <<>>, <<>>)]]

\* an adapter of a schema version
Adapter(dsl) == [type |-> "dsl", dsl |-> dsl]

DanglingKind ==
  [latest |-> "v3",
   entries |-> [v \in Versions |->
      CASE v = "v1" -> Entry("v1", <<Migrator("v1", "v2", DslAtoB)>>, <<>>)
        [] v = "v2" -> Entry("v2", <<>>, <<Adapter(DslBtoC)>>)
        [] OTHER -> Entry("v3", <<>>, <<Adapter(DslBtoA)>>)]]

BranchKind ==
  [latest |-> "v3",
   entries |-> [v \in Versions |->
      CASE v = "v1" -> Entry("v1", <<Migrator("v1", "v3", DslAtoB), Migrator("v1", "v2", DslBtoC)>>, <<>>)
        [] v = "v2" -> Entry("v2", <<Migrator("v2", "v3", DslBtoC)>>, <<>>)
        [] OTHER -> Entry("v3", <<>>, <<>>)]]

GapKind ==
  [latest |-> "v3",
   entries |-> [v \in Versions |->
      CASE v = "v1" -> Entry("v1", <<Migrator("v1", "v2", DslAtoB)>>, <<>>)
        [] v = "v2" -> NoEntry
        [] OTHER -> Entry("v3", <<>>, <<>>)]]

KindDocInputs == {ChainKind, CycleKind, DanglingKind, BranchKind, GapKind}

\* the kind named by an upsert: a kind id, one of its aliases, an unknown name
EnvelopeKindInputs == {"cam.diagram.class", "cam.erd", "cam.document"}

FromVersionInputs == {NoVersion, "v0", "v1", "v2", "v3"}

ToVersionInputs == {NoVersion, "v2", "v3"}

\* kind_registry_dal.get_schema_version_entry: the entry with that version, the
\* latest entry when version is None, None when the kind has no such entry
get_schema_version_entry(kd, version) ==
  LET v == IF version = NoVersion THEN kd.latest ELSE version
  IN IF v \in Versions /\ kd.entries[v].present THEN kd.entries[v] ELSE NoEntry

\* "for mig in entry.migrators: if mig.from_version == cur_version: ... break"
FirstMigrator(entry, cur_version) ==
  LET hits == SelectSeq(entry.migrators, LAMBDA m : m.from_version = cur_version)
  IN IF hits = <<>> THEN Migrator(NoVersion, NoVersion, NoDsl) ELSE hits[1]

NoReturn == [status |-> "none", data |-> Null, version |-> NoVersion]

\* build_envelope around migrate_data: not entered
NoError == [type |-> "none", site |-> "none"]

NoEnvelope ==
  [pc |-> "off", kind_or_alias |-> NoKind, at_version |-> NoVersion,
   adapted_with |-> NoVersion, validated_with |-> NoVersion, adapted |-> Null,
   error |-> NoError, status |-> 0]

NoMigration ==
  [pc |-> "off", kd |-> ChainKind, data |-> Null, from_version |-> NoVersion,
   to_version |-> NoVersion, target |-> NoVersion, cur_version |-> NoVersion,
   cur_data |-> Null, safety_counter |-> 0, applied |-> <<>>, ret |-> NoReturn,
   envelope |-> NoEnvelope]

RECURSIVE AdaptAll(_, _)
\* "for ad in entry.adapters: if ad_type == 'dsl' and ad.get('dsl'): out = _apply_adapter_dsl(out, ad['dsl'])"
AdaptAll(out, adapters) ==
  IF adapters = <<>> \/ out = Raise THEN out
  ELSE AdaptAll(IF Head(adapters).type = "dsl" /\ Head(adapters).dsl # NoDsl
                  THEN _apply_adapter_dsl(out, Head(adapters).dsl) ELSE out,
                Tail(adapters))

\* adapt_data without the "Schema version not found" error: the payload is
\* handed on as it is when the kind has no entry for the version
adapt_data_passthrough(kd, data, version) ==
  LET entry == get_schema_version_entry(kd, version)
  IN IF ~entry.present THEN data ELSE AdaptAll(data, entry.adapters)

\* adapt_data: Raise when the kind has no entry for the version
adapt_data(kd, data, version) ==
  LET entry == get_schema_version_entry(kd, version)
  IN IF ~entry.present THEN Raise ELSE AdaptAll(data, entry.adapters)

\* ------------------------------------------------- discovery-service: diff
\* str.lower() on the strings of the model
lower(x) ==
  CASE x = "A" -> "a"
    [] x = "B" -> "b"
    [] x = "C" -> "c"
    [] x = "cam.erd:Doc" -> "cam.erd:doc"
    [] OTHER -> x

\* the order Python's sorted() puts the model's natural keys in
NkOrder == <<"a", "b", "c", "cam.erd:doc">>

Rank(nk) == CHOOSE i \in DOMAIN NkOrder : NkOrder[i] = nk

RECURSIVE Insert(_, _)
Insert(xs, x) ==
  IF xs = <<>> THEN <<x>>
  ELSE IF Rank(x) < Rank(Head(xs)) THEN <<x>> \o xs
  ELSE <<Head(xs)>> \o Insert(Tail(xs), x)

RECURSIVE sorted(_)
sorted(xs) == IF xs = <<>> THEN <<>> ELSE Insert(sorted(Tail(xs)), Head(xs))

\* an artifact document as the artifact service returns it; "" is None
ArtifactDoc(id, kind, name, nk, fp) ==
  [artifact_id |-> id, kind |-> kind, name |-> name, natural_key |-> nk, fingerprint |-> fp]

\* what GET /artifact/{workspace_id}/{artifact_id} answers per id; id 7 is 404
Catalog ==
  [id \in 1..6 |->
     CASE id = 1 -> ArtifactDoc(1, "cam.erd", "One", "B", "fp2")
       [] id = 2 -> ArtifactDoc(2, "cam.erd", "Two", "A", "fp1")
       [] id = 3 -> ArtifactDoc(3, "cam.erd", "Three", "B", "fp3")
       [] id = 4 -> ArtifactDoc(4, "cam.erd", "Four", "C", "fp4")
       [] id = 5 -> ArtifactDoc(5, "cam.erd", "Five", "B", "fp2")
       [] OTHER -> ArtifactDoc(6, "cam.erd", "Doc", "", "")]

RunArtifactIds == 1..7

\* result_summary["artifact_ids"] of a run: a list of ids, here in rising order
RECURSIVE IdList(_)
IdList(ids) ==
  IF ids = {} THEN <<>>
  ELSE LET m == CHOOSE i \in ids : \A j \in ids : i <= j
       IN <<m>> \o IdList(ids \ {m})

\* main._nk
_nk(a) ==
  lower(IF a.natural_key # "" THEN a.natural_key ELSE a.kind \o ":" \o a.name)

\* { _nk(a): a for a in docs }: first occurrence fixes the position, the last
\* occurrence the value
RECURSIVE KeyBy(_, _)
KeyBy(acc, docs) ==
  IF docs = <<>> THEN acc
  ELSE LET a == Head(docs)
           at == {i \in DOMAIN acc : acc[i].k = _nk(a)}
       IN KeyBy(IF at = {} THEN Append(acc, [k |-> _nk(a), v |-> a])
                ELSE [i \in DOMAIN acc |-> IF i \in at THEN [k |-> _nk(a), v |-> a] ELSE acc[i]],
                Tail(docs))

Keys(d) == [i \in DOMAIN d |-> d[i].k]

InKeys(d, nk) == \E i \in DOMAIN d : d[i].k = nk

Lookup(d, nk) == d[CHOOSE i \in DOMAIN d : d[i].k = nk].v


\* "(lid and rid and lid == rid) or (lfp and rfp and lfp == rfp)"
Same(l, r) ==
  \/ l.artifact_id = r.artifact_id
  \/ l.fingerprint # "" /\ r.fingerprint # "" /\ l.fingerprint = r.fingerprint

\* models.discovery.ArtifactsDiff declares new, updated, unchanged and retired
\* and no model_config: a pydantic model with the default extra setting, on
\* which assigning an undeclared attribute raises ValueError
ArtifactsDiffAllowsExtra == FALSE

\* "diff.counts = _counts(diff)": where the function stands after that line
AssignCounts == IF ArtifactsDiffAllowsExtra THEN "returned" ELSE "raised"

\* main._counts
_counts(diff) ==
  [new |-> Len(diff.new), updated |-> Len(diff.updated),
   unchanged |-> Len(diff.unchanged), retired |-> Len(diff.retired), deleted |-> 0]

NoDiff == [new |-> <<>>, updated |-> <<>>, unchanged |-> <<>>, retired |-> <<>>]

NoCounts == [new |-> 0, updated |-> 0, unchanged |-> 0, retired |-> 0, deleted |-> 0]

NoDiffRun ==
  [pc |-> "off", catalog |-> Catalog, left_ids |-> <<>>, right_ids |-> <<>>,
   left_docs |-> <<>>, right_docs |-> <<>>, diff |-> NoDiff, counts |-> NoCounts,
   changed |-> 0]

\* ------------------------------------------------- the kind registry cache
MaxRegistryWrites == 2
MaxRegistryCalls == 3

CacheKindIds == {"cam.diagram.class", "cam.diagram.sequence"}

AliasNames == {"cam.erd"}

KindRevisions == {1, 2}

NoKindDoc == [id |-> NoKind, aliases |-> {}, rev |-> 0]

\* a kind document of the store: its id, its aliases, its contents (a revision).
\* The alias cam.erd belongs to the first revision of cam.diagram.class and to
\* the second revision of cam.diagram.sequence.
KindDoc(id, rev) ==
  [id |-> id,
   aliases |-> IF (id = "cam.diagram.class") = (rev = 1) THEN {"cam.erd"} ELSE {},
   rev |-> rev]

\* an empty dict of kinds, an empty dict of aliases
NoKinds == [id \in CacheKindIds |-> NoKindDoc]

NoAliases == [a \in AliasNames |-> NoKind]

\* "for d in all_docs: kinds[kd.id] = kd; for a in kd.aliases: aliases[a] = kd.id",
\* with all_docs in the order of the kind ids
BuildAliases(all_docs) ==
  [a \in AliasNames |->
     IF a \in all_docs["cam.diagram.sequence"].aliases THEN "cam.diagram.sequence"
     ELSE IF a \in all_docs["cam.diagram.class"].aliases THEN "cam.diagram.class"
     ELSE NoKind]

\* kind_registry_dal.resolve_kind: the kind with that id, else the kind that
\* lists the name as an alias, else None
dal_resolve_kind(kinds, kind_or_alias) ==
  IF kind_or_alias \in CacheKindIds /\ kinds[kind_or_alias] # NoKindDoc
    THEN kinds[kind_or_alias]
    ELSE IF \E id \in CacheKindIds : kind_or_alias \in kinds[id].aliases
      THEN kinds[CHOOSE id \in CacheKindIds : kind_or_alias \in kinds[id].aliases]
      ELSE NoKindDoc

\* "if (not force) and self._etag and meta.etag == self._etag: return"
CacheIsCurrent(force, _etag, meta_etag) ==
  ~force /\ _etag # 0 /\ meta_etag = _etag

\* the fast path of _get_kind_doc: "self._kinds.get(kind_or_alias)", else
\* "self._aliases.get(kind_or_alias)" when the kind it names is cached
CacheLookup(_kinds, _aliases, kind_or_alias) ==
  IF kind_or_alias \in CacheKindIds /\ _kinds[kind_or_alias] # NoKindDoc
    THEN _kinds[kind_or_alias]
    ELSE IF kind_or_alias \in AliasNames /\ _aliases[kind_or_alias] # NoKind
            /\ _kinds[_aliases[kind_or_alias]] # NoKindDoc
      THEN _kinds[_aliases[kind_or_alias]]
      ELSE NoKindDoc

\* "self._kinds[kd.id] = kd"
SlowPutKind(_kinds, kd) == [_kinds EXCEPT ![kd.id] = kd]

\* "for a in kd.aliases or []: self._aliases[a] = kd.id"
SlowPutAliases(_aliases, kd) ==
  [a \in AliasNames |-> IF a \in kd.aliases THEN kd.id ELSE _aliases[a]]

\* ------------------------------------------------------------------- state
VARIABLES
  parent,      \* the workspace's parent document exists (workspace_artifacts)
  artifacts,   \* its embedded "artifacts" array
  patches,     \* the artifact_patches collection, in insertion order
  nextId,      \* artifact ids handed out so far + 1 (stands for uuid4)
  requests,    \* requests issued so far
  call,        \* per caller: the request in flight and its local variables
  result,      \* per caller: the response of its last finished request
  adapter,     \* the adapter run: input document, rule, output so far
  mig,         \* a migrate_data / build_envelope call: arguments, locals, return
  run,         \* discovery-service: a run diff being computed
  batch,       \* an upsert-batch request: items, loop index, results, counts
  ident,       \* an identity computation: kind, name, identity rule, payload, results
  registry     \* the kind registry: the store's token and kinds, the service's cache, its callers

storeVars == <<parent, artifacts, patches, nextId>>

\* a caller starts a request
Start(c) ==
  /\ call[c].pc = "idle"
  /\ requests < MaxRequests
  /\ requests' = requests + 1

NoArtifact ==
  [artifact_id |-> 0, kind |-> NoKind, name |-> "", data |-> Null,
   natural_key |-> "", fingerprint |-> _sha256(Null), version |-> 0,
   deleted_at |-> FALSE, provenance |-> "none"]

Idle ==
  [pc |-> "idle", target |-> 0, if_match |-> "absent", env |-> NoArtifact,
   new_data |-> Null, patch |-> <<>>, prov |-> "none",
   from_version |-> 0, updated |-> 0]

NoResult ==
  [op |-> "none", status |-> 0, xop |-> "", etag |-> 0, event |-> "",
   target |-> 0, if_match |-> "absent", listed |-> {}, published |-> "none"]

Response(op, status, xop, etag, event, target, if_match) ==
  [op |-> op, status |-> status, xop |-> xop, etag |-> etag, event |-> event,
   target |-> target, if_match |-> if_match, listed |-> {}, published |-> "none"]

PublishedOrRaise(r, published) ==
  IF published
    THEN [r EXCEPT !.published = "true"]
    ELSE [r EXCEPT !.published = "false", !.status = 500, !.etag = 0]

\* "published = publish_event_v1(...)" ... "_set_event_header(response, published)":
\* the outcome of the publication goes into the X-Event-Published header only
Published(r, published) ==
  [r EXCEPT !.published = IF published THEN "true" ELSE "false"]

Positions(id) == {i \in DOMAIN artifacts : artifacts[i].artifact_id = id}

\* dal.get_artifact: the first array element with that id, or None
get_artifact(id) ==
  IF parent /\ Positions(id) # {}
    THEN artifacts[CHOOSE i \in Positions(id) : \A j \in Positions(id) : i <= j]
    ELSE NoArtifact

Live(a) == a # NoArtifact /\ ~a.deleted_at

Finish(c, r) ==
  /\ call' = [call EXCEPT ![c] = Idle]
  /\ result' = [result EXCEPT ![c] = r]
  /\ UNCHANGED <<adapter, mig, run, batch, ident, registry>>

Continue(c, locals) ==
  /\ call' = [call EXCEPT ![c] = locals]
  /\ result' = [result EXCEPT ![c] = NoResult]
  /\ UNCHANGED <<adapter, mig, run, batch, ident, registry>>

\* no upsert-batch request in progress
NoBatch ==
  [pc |-> "off", items |-> <<>>, i |-> 1, results |-> <<>>,
   counts |-> [insert |-> 0, update |-> 0, noop |-> 0, failed |-> 0],
   published |-> <<>>]

\* no identity computation in progress
NoIdent ==
  [pc |-> "off", kind_id |-> <<>>, name |-> <<>>, ident_spec |-> [natural_key |-> NoNaturalKey],
   data |-> Null, natural_key |-> <<>>, fingerprint |-> _sha256(Null)]

\* no lookup of the registry in progress for a caller
NoLookup ==
  [pc |-> "idle", op |-> "none", force |-> FALSE, name |-> NoKind, meta |-> 0,
   all_docs |-> NoKinds, kd |-> NoKindDoc]

\* the registry as the service is constructed over a seeded store:
\* "self._etag = None; self._kinds = {}; self._aliases = {}"
NoRegistry ==
  [etag |-> 1,
   kinds |-> [NoKinds EXCEPT !["cam.diagram.class"] = KindDoc("cam.diagram.class", 1)],
   _etag |-> 0, _kinds |-> NoKinds, _aliases |-> NoAliases,
   writes |-> 0, calls |-> 0,
   proc |-> [c \in Callers |-> NoLookup]]

\* no adapter run in progress
NoRun ==
  [data |-> Null, dsl |-> [move |-> <<>>, set |-> <<>>, defaults |-> <<>>, delete |-> <<>>],
   out |-> Null, first |-> Null, runs |-> 0]

Init ==
  /\ parent = FALSE
  /\ artifacts = <<>>
  /\ patches = <<>>
  /\ nextId = 1
  /\ requests = 0
  /\ call = [c \in Callers |-> Idle]
  /\ result = [c \in Callers |-> NoResult]
  /\ adapter = NoRun
  /\ mig = NoMigration
  /\ run = NoDiffRun
  /\ batch = NoBatch
  /\ ident = NoIdent
  /\ registry = NoRegistry

\* ------------------------------------------------------ workspace consumer
\* workspace_consumer._on_created -> dal.create_parent_doc
WorkspaceCreated ==
  /\ ~parent
  /\ parent' = TRUE
  /\ artifacts' = <<>>
  /\ UNCHANGED <<patches, nextId, requests, call, result, adapter, mig, run, batch, ident, registry>>

\* workspace_consumer._on_deleted -> dal.delete_parent_doc (delete_one)
WorkspaceDeleted ==
  /\ parent
  /\ parent' = FALSE
  /\ artifacts' = <<>>
  /\ UNCHANGED <<patches, nextId, requests, call, result, adapter, mig, run, batch, ident, registry>>

\* --------------------------------------------------------------- DAL layer
\* artifact_dal.ensure_indexes: a unique index on workspace_id only; no index
\* constrains (workspace_id, kind, natural_key)
UniqueNaturalKeyIndex == FALSE

\* the non-deleted array elements with that kind and natural key, oldest first
LiveWithKey(kind, nk) ==
  SelectSeq(artifacts, LAMBDA a : a.kind = kind /\ a.natural_key = nk /\ ~a.deleted_at)

\* dal.add_artifact: $push of a new item at version 1
add_artifact(env, prov) ==
  Append(artifacts,
         [artifact_id |-> nextId, kind |-> env.kind, name |-> env.name,
          data |-> env.data, natural_key |-> env.natural_key,
          fingerprint |-> env.fingerprint, version |-> 1,
          deleted_at |-> FALSE, provenance |-> prov])

replace_artifact_inc2(id, new_data, prov) ==
  [i \in DOMAIN artifacts |->
     IF artifacts[i].artifact_id = id
       THEN [artifacts[i] EXCEPT !.data = new_data, !.provenance = prov, !.version = @ + 2]
       ELSE artifacts[i]]

\* dal.replace_artifact: find_one_and_update with array filter a.artifact_id,
\* $set data / provenance, $inc version; fingerprint is not in the $set
replace_artifact(id, new_data, prov) ==
  [i \in DOMAIN artifacts |->
     IF artifacts[i].artifact_id = id
       THEN [artifacts[i] EXCEPT !.data = new_data, !.provenance = prov, !.version = @ + 1]
       ELSE artifacts[i]]

\* the update write of dal.upsert_artifact: payload, fingerprint and provenance
\* replaced and version bumped in one store operation
upsert_update(id, env, prov) ==
  [i \in DOMAIN artifacts |->
     IF artifacts[i].artifact_id = id
       THEN [artifacts[i] EXCEPT !.data = env.data, !.fingerprint = env.fingerprint,
                                 !.provenance = prov, !.version = @ + 1]
       ELSE artifacts[i]]

soft_delete_artifact_remove(id) ==
  SelectSeq(artifacts, LAMBDA a : a.artifact_id # id)

\* dal.soft_delete_artifact: array filter a.artifact_id and a.deleted_at = None
soft_delete_artifact(id) ==
  [i \in DOMAIN artifacts |->
     IF artifacts[i].artifact_id = id /\ ~artifacts[i].deleted_at
       THEN [artifacts[i] EXCEPT !.deleted_at = TRUE]
       ELSE artifacts[i]]

\* "for a in res['artifacts']: if a.get('artifact_id') == artifact_id: return a"
PickFrom(arr, id) ==
  LET ps == {i \in DOMAIN arr : arr[i].artifact_id = id}
  IN IF ps = {} THEN NoArtifact ELSE arr[CHOOSE i \in ps : \A j \in ps : i <= j]

list_artifacts_unfiltered(include_deleted) ==
  IF parent THEN {artifacts[i].artifact_id : i \in DOMAIN artifacts} ELSE {}

\* dal.list_artifacts without kind / name filters, within the first page
list_artifacts(include_deleted) ==
  IF parent
    THEN {artifacts[i].artifact_id : i \in {j \in DOMAIN artifacts : include_deleted \/ ~artifacts[j].deleted_at}}
    ELSE {}

\* dal.record_patch
record_patch(id, from_version, to_version, patch, prov) ==
  Append(patches, [artifact_id |-> id, from_version |-> from_version,
                   to_version |-> to_version, patch |-> patch, provenance |-> prov])

RECURSIVE InsertPatch(_, _)
\* a record put before the first record with a larger to_version
InsertPatch(x, recs) ==
  IF recs = <<>> THEN <<x>>
  ELSE IF x.to_version <= Head(recs).to_version THEN <<x>> \o recs
  ELSE <<Head(recs)>> \o InsertPatch(x, Tail(recs))

RECURSIVE SortPatches(_)
\* ".sort('to_version', 1)"
SortPatches(recs) ==
  IF recs = <<>> THEN <<>> ELSE InsertPatch(Head(recs), SortPatches(Tail(recs)))

\* dal.list_patches: the records of the artifact, by to_version
list_patches(id) ==
  SortPatches(SelectSeq(patches, LAMBDA r : r.artifact_id = id))

\* GET /{workspace_id}/{artifact_id}/history: what the route answers in the
\* current state: 404 when dal.get_artifact returns None, else the records
history(id) ==
  IF get_artifact(id) = NoArtifact
    THEN [status |-> 404, records |-> <<>>]
    ELSE [status |-> 200, records |-> list_patches(id)]

\* ------------------------------------------------------------ route helpers
\* _parse_if_match: None when absent, int(value), HTTP 400 on ValueError
_parse_if_match(h) ==
  CASE h = "absent" -> [ok |-> TRUE, none |-> TRUE, v |-> 0]
    [] h = "1" -> [ok |-> TRUE, none |-> FALSE, v |-> 1]
    [] h = "2" -> [ok |-> TRUE, none |-> FALSE, v |-> 2]
    [] h = "3" -> [ok |-> TRUE, none |-> FALSE, v |-> 3]
    [] h = "4" -> [ok |-> TRUE, none |-> FALSE, v |-> 4]
    [] OTHER -> [ok |-> FALSE, none |-> FALSE, v |-> 0]

_guard_if_match_gt(expected, actual) == expected.none \/ expected.v <= actual

\* _guard_if_match: TRUE when the guard lets the request through
_guard_if_match(expected, actual) == expected.none \/ expected.v = actual

\* jsonpatch.apply_patch for one operation on a top-level member
ApplyOp(data, o) ==
  CASE o.op = "add" -> [ok |-> TRUE, data |-> ObjPut(data, o.path, o.value)]
    [] o.op = "replace" ->
         IF HasKey(data, o.path)
           THEN [ok |-> TRUE, data |-> ObjPut(data, o.path, o.value)]
           ELSE [ok |-> FALSE, data |-> data]
    [] o.op = "remove" ->
         IF HasKey(data, o.path)
           THEN [ok |-> TRUE, data |-> ObjDel(data, o.path)]
           ELSE [ok |-> FALSE, data |-> data]

RECURSIVE apply_patch(_, _)
apply_patch(data, patch) ==
  IF patch = <<>>
    THEN [ok |-> TRUE, data |-> data]
    ELSE LET r == ApplyOp(data, Head(patch))
         IN IF r.ok THEN apply_patch(r.data, Tail(patch)) ELSE r

EnvItem(env, prov) ==
  [artifact_id |-> 0, kind |-> env.kind, name |-> env.name, data |-> env.data,
   natural_key |-> env.natural_key, fingerprint |-> env.fingerprint,
   version |-> 0, deleted_at |-> FALSE, provenance |-> prov]

\* ---------------------------------------------------- POST /{workspace_id}
\* upsert_artifact -> dal.upsert_artifact, up to its lookup of the existing
\* non-deleted artifact; an unchanged fingerprint ends the request as noop
UpsertLookup(c, kind, name, data, prov) ==
  /\ Start(c)
  /\ UNCHANGED storeVars
  /\ LET env == build_envelope(kind, name, data)
         existing == IF parent /\ env.ok THEN LiveWithKey(env.kind, env.natural_key) ELSE <<>>
     IN IF ~env.ok
          THEN Finish(c, Response("upsert", 404, "", 0, "", 0, "absent"))
          ELSE IF existing = <<>>
            THEN Continue(c, [Idle EXCEPT !.pc = "upsert_insert", !.env = EnvItem(env, prov), !.prov = prov])
            ELSE IF existing[1].fingerprint = env.fingerprint
              THEN Finish(c, Published(Response("upsert", 200, "noop", existing[1].version, "",
                                                existing[1].artifact_id, "absent"), TRUE))
              ELSE Continue(c, [Idle EXCEPT !.pc = "upsert_update", !.env = EnvItem(env, prov),
                                            !.prov = prov, !.target = existing[1].artifact_id])

\* the insert write of the upsert; a duplicate-key error (raised only when the
\* store has the unique index) is retried as read-then-update
UpsertInsert(c) ==
  /\ call[c].pc = "upsert_insert"
  /\ UNCHANGED requests
  /\ UNCHANGED patches
  /\ LET env == call[c].env
         dup == LiveWithKey(env.kind, env.natural_key)
     IN IF ~parent
          THEN /\ UNCHANGED <<parent, artifacts, nextId>>
               /\ Finish(c, Response("upsert", 404, "", 0, "", 0, "absent"))
          ELSE IF UniqueNaturalKeyIndex /\ dup # <<>>
            THEN /\ UNCHANGED <<parent, nextId>>
                 /\ IF dup[1].fingerprint = env.fingerprint
                      THEN /\ UNCHANGED artifacts
                           /\ Finish(c, Published(Response("upsert", 200, "noop", dup[1].version, "",
                                                           dup[1].artifact_id, "absent"), TRUE))
                      ELSE /\ artifacts' = upsert_update(dup[1].artifact_id, env, call[c].prov)
                           /\ \E published \in BOOLEAN :
                                Finish(c, Published(Response("upsert", 200, "update", dup[1].version + 1,
                                                             "updated", dup[1].artifact_id, "absent"),
                                                    published))
            ELSE /\ artifacts' = add_artifact(env, call[c].prov)
                 /\ nextId' = nextId + 1
                 /\ UNCHANGED parent
                 /\ \E published \in BOOLEAN :
                      Finish(c, Published(Response("upsert", 201, "insert", 1, "created", nextId, "absent"),
                                          published))

\* the update write of the upsert
UpsertUpdate(c) ==
  /\ call[c].pc = "upsert_update"
  /\ UNCHANGED requests
  /\ UNCHANGED <<parent, patches, nextId>>
  /\ LET id == call[c].target
     IN IF ~parent \/ Positions(id) = {}
          THEN /\ UNCHANGED artifacts
               /\ Finish(c, Response("upsert", 404, "", 0, "", id, "absent"))
          ELSE /\ artifacts' = upsert_update(id, call[c].env, call[c].prov)
               /\ \E published \in BOOLEAN :
                    Finish(c, Published(Response("upsert", 200, "update", PickFrom(artifacts', id).version,
                                                 "updated", id, "absent"), published))

\* ------------------------------------ PUT /{workspace_id}/{artifact_id}
\* replace_artifact up to "await dal.replace_artifact": read, 404, If-Match guard
ReplaceRead(c, id, h, data, prov) ==
  /\ Start(c)
  /\ UNCHANGED storeVars
  /\ LET art == get_artifact(id)
         expected == _parse_if_match(h)
     IN IF art = NoArtifact \/ art.deleted_at
          THEN Finish(c, Response("replace", 404, "", 0, "", id, h))
          ELSE IF ~expected.ok
            THEN Finish(c, Response("replace", 400, "", 0, "", id, h))
            ELSE IF ~_guard_if_match(expected, art.version)
              THEN Finish(c, Response("replace", 412, "", 0, "", id, h))
              ELSE Continue(c, [Idle EXCEPT !.pc = "replace_write", !.target = id, !.if_match = h,
                                            !.new_data = data, !.prov = prov])

\* dal.replace_artifact and the rest of the handler
ReplaceWrite(c) ==
  /\ call[c].pc = "replace_write"
  /\ UNCHANGED requests
  /\ UNCHANGED <<parent, patches, nextId>>
  /\ LET id == call[c].target
         res == replace_artifact(id, call[c].new_data, call[c].prov)
         updated == PickFrom(res, id)
     IN IF ~parent
          THEN /\ UNCHANGED artifacts
               /\ Finish(c, Response("replace", 500, "", 0, "", id, call[c].if_match))
          ELSE /\ artifacts' = res
               /\ IF updated = NoArtifact
                    THEN Finish(c, Response("replace", 500, "", 0, "", id, call[c].if_match))
                    ELSE \E published \in BOOLEAN :
                           Finish(c, Published(Response("replace", 200, "", updated.version, "updated",
                                                        id, call[c].if_match), published))

\* ------------------------------ POST /{workspace_id}/{artifact_id}/patch
\* patch_artifact up to "await dal.replace_artifact"
PatchRead(c, id, h, patch, prov) ==
  /\ Start(c)
  /\ UNCHANGED storeVars
  /\ LET art == get_artifact(id)
         expected == _parse_if_match(h)
     IN IF art = NoArtifact \/ art.deleted_at
          THEN Finish(c, Response("patch", 404, "", 0, "", id, h))
          ELSE IF ~expected.ok
            THEN Finish(c, Response("patch", 400, "", 0, "", id, h))
            ELSE IF ~_guard_if_match(expected, art.version)
              THEN Finish(c, Response("patch", 412, "", 0, "", id, h))
              ELSE LET new == apply_patch(art.data, patch)
                   IN IF ~new.ok
                        THEN Finish(c, Response("patch", 400, "", 0, "", id, h))
                        ELSE Continue(c, [Idle EXCEPT !.pc = "patch_write", !.target = id,
                                                      !.if_match = h,
                                                      !.new_data = new.data, !.patch = patch,
                                                      !.prov = prov, !.from_version = art.version])

\* "updated = await dal.replace_artifact(...)" of patch_artifact
PatchWrite(c) ==
  /\ call[c].pc = "patch_write"
  /\ UNCHANGED requests
  /\ UNCHANGED <<parent, patches, nextId>>
  /\ LET id == call[c].target
         res == replace_artifact(id, call[c].new_data, call[c].prov)
         updated == PickFrom(res, id)
     IN IF ~parent
          THEN /\ UNCHANGED artifacts
               /\ Finish(c, Response("patch", 500, "", 0, "", id, call[c].if_match))
          ELSE /\ artifacts' = res
               /\ IF updated = NoArtifact
                    THEN Finish(c, Response("patch", 500, "", 0, "", id, call[c].if_match))
                    ELSE Continue(c, [call[c] EXCEPT !.pc = "patch_record", !.updated = updated.version])

\* "await dal.record_patch(...)" and the rest of patch_artifact
PatchRecord(c) ==
  /\ call[c].pc = "patch_record"
  /\ UNCHANGED requests
  /\ UNCHANGED <<parent, artifacts, nextId>>
  /\ patches' = record_patch(call[c].target, call[c].from_version, call[c].updated,
                             call[c].patch, call[c].prov)
  /\ \E published \in BOOLEAN :
       Finish(c, Published(Response("patch", 200, "", call[c].updated, "patched",
                                    call[c].target, call[c].if_match), published))

\* --------------------------------- DELETE /{workspace_id}/{artifact_id}
delete_artifact(c, id) ==
  /\ Start(c)
  /\ UNCHANGED <<parent, patches, nextId>>
  /\ IF ~parent
       THEN /\ UNCHANGED artifacts
            /\ Finish(c, Response("delete", 404, "", 0, "", id, "absent"))
       ELSE /\ artifacts' = soft_delete_artifact(id)
            /\ IF PickFrom(artifacts', id) = NoArtifact
                 THEN Finish(c, Response("delete", 404, "", 0, "", id, "absent"))
                 ELSE \E published \in BOOLEAN :
                        Finish(c, Published(Response("delete", 204, "", 0, "deleted", id, "absent"),
                                            published))

\* ------------------------------------------------------------------ reads
\* GET /{workspace_id}/{artifact_id}
get_artifact_route(c, id) ==
  /\ Start(c)
  /\ UNCHANGED storeVars
  /\ LET art == get_artifact(id)
     IN IF art = NoArtifact \/ art.deleted_at
          THEN Finish(c, Response("get", 404, "", 0, "", id, "absent"))
          ELSE Finish(c, Response("get", 200, "", art.version, "", id, "absent"))

\* HEAD /{workspace_id}/{artifact_id}
head_artifact(c, id) ==
  /\ Start(c)
  /\ UNCHANGED storeVars
  /\ LET art == get_artifact(id)
     IN IF art = NoArtifact \/ art.deleted_at
          THEN Finish(c, Response("head", 404, "", 0, "", id, "absent"))
          ELSE Finish(c, Response("head", 200, "", art.version, "", id, "absent"))

\* GET /{workspace_id}?include_deleted=...
list_artifacts_route(c, include_deleted) ==
  /\ Start(c)
  /\ UNCHANGED storeVars
  /\ Finish(c, [Response("list", 200, IF include_deleted THEN "include_deleted" ELSE "",
                         0, "", 0, "absent")
                  EXCEPT !.listed = list_artifacts(include_deleted)])

\* ------------------------------------------------------------ specification
vars == <<parent, artifacts, patches, nextId, requests, call, result, adapter, mig, run, batch, ident, registry>>

Next ==
  \/ WorkspaceCreated
  \/ WorkspaceDeleted
  \/ \E c \in Callers, kind \in KindInputs, name \in NameInputs, data \in DataInputs, prov \in ProvInputs :
       UpsertLookup(c, kind, name, data, prov)
  \/ \E c \in Callers : UpsertInsert(c)
  \/ \E c \in Callers : UpsertUpdate(c)
  \/ \E c \in Callers, id \in ArtifactIds, h \in IfMatchInputs, data \in DataInputs, prov \in ProvInputs :
       ReplaceRead(c, id, h, data, prov)
  \/ \E c \in Callers : ReplaceWrite(c)
  \/ \E c \in Callers, id \in ArtifactIds, h \in IfMatchInputs, patch \in PatchInputs, prov \in ProvInputs :
       PatchRead(c, id, h, patch, prov)
  \/ \E c \in Callers : PatchWrite(c)
  \/ \E c \in Callers : PatchRecord(c)
  \/ \E c \in Callers, id \in ArtifactIds : delete_artifact(c, id)
  \/ \E c \in Callers, id \in ArtifactIds : get_artifact_route(c, id)
  \/ \E c \in Callers, id \in ArtifactIds : head_artifact(c, id)
  \/ \E c \in Callers, incl \in BOOLEAN : list_artifacts_route(c, incl)

Spec == Init /\ [][Next]_vars

\* ---------------------------------------------------- the adapter on its own
\* a document and a rule are chosen; out starts as the deep copy of the document
InitAdapter ==
  /\ parent = FALSE
  /\ artifacts = <<>>
  /\ patches = <<>>
  /\ nextId = 1
  /\ requests = 0
  /\ call = [c \in Callers |-> Idle]
  /\ result = [c \in Callers |-> NoResult]
  /\ \E d \in DocInputs, r \in DslInputs :
       adapter = [data |-> d, dsl |-> r, out |-> d, first |-> d, runs |-> 0]
  /\ mig = NoMigration
  /\ run = NoDiffRun
  /\ batch = NoBatch
  /\ ident = NoIdent
  /\ registry = NoRegistry

\* out = _apply_adapter_dsl(out, ad["dsl"]), on the previous output
ApplyAdapter ==
  /\ adapter.runs < MaxApply
  /\ adapter.out # Raise
  /\ LET res == _apply_adapter_dsl(adapter.out, adapter.dsl)
     IN adapter' = [adapter EXCEPT !.out = res,
                                   !.first = IF adapter.runs = 0 THEN res ELSE @,
                                   !.runs = @ + 1]
  /\ UNCHANGED <<storeVars, requests, call, result, mig, run, batch, ident, registry>>

NextAdapter == ApplyAdapter

SpecAdapter == InitAdapter /\ [][NextAdapter]_vars

\* ------------------------------------------------- migrate_data on its own
\* a kind document, a payload and the two version arguments are chosen
InitMigrate ==
  /\ parent = FALSE
  /\ artifacts = <<>>
  /\ patches = <<>>
  /\ nextId = 1
  /\ requests = 0
  /\ call = [c \in Callers |-> Idle]
  /\ result = [c \in Callers |-> NoResult]
  /\ adapter = NoRun
  /\ run = NoDiffRun
  /\ batch = NoBatch
  /\ ident = NoIdent
  /\ registry = NoRegistry
  /\ \E kd \in KindDocInputs, d \in DocInputs, f \in FromVersionInputs, t \in ToVersionInputs :
       mig = [NoMigration EXCEPT !.pc = "call", !.kd = kd, !.data = d,
                                 !.from_version = f, !.to_version = t]

\* migrate_data up to the loop: target, and the early return
MigrateStart ==
  /\ mig.pc = "call"
  /\ LET target == IF mig.to_version = NoVersion THEN mig.kd.latest ELSE mig.to_version
     IN IF mig.from_version = NoVersion \/ mig.from_version = target
          THEN mig' = [mig EXCEPT !.pc = "returned", !.target = target,
                                  !.ret = [status |-> "ok", data |-> mig.data, version |-> target]]
          ELSE mig' = [mig EXCEPT !.pc = "loop", !.target = target,
                                  !.cur_version = mig.from_version, !.cur_data = mig.data]
  /\ UNCHANGED <<storeVars, requests, call, result, adapter, run, batch, ident, registry>>

KeepWalkingPastTarget(cur_version, target, safety_counter) == safety_counter < HopBound

KeepWalkingOneMore(cur_version, target, safety_counter) ==
  cur_version # target /\ safety_counter <= HopBound

\* "while cur_version != target and safety_counter < 50"
KeepWalking(cur_version, target, safety_counter) ==
  cur_version # target /\ safety_counter < HopBound

\* one iteration of the loop
MigrateHop ==
  /\ mig.pc = "loop"
  /\ KeepWalking(mig.cur_version, mig.target, mig.safety_counter)
  /\ LET entry == get_schema_version_entry(mig.kd, mig.cur_version)
         m == FirstMigrator(entry, mig.cur_version)
         out == IF m.type = "dsl" /\ m.dsl # NoDsl
                  THEN _apply_adapter_dsl(mig.cur_data, m.dsl) ELSE mig.cur_data
     IN IF ~entry.present \/ m.to_version = NoVersion
          THEN mig' = [mig EXCEPT !.pc = "break", !.safety_counter = @ + 1]
          ELSE IF out = Raise
            THEN mig' = [mig EXCEPT !.pc = "returned", !.safety_counter = @ + 1,
                                    !.ret = [status |-> "error", data |-> Null, version |-> NoVersion]]
            ELSE mig' = [mig EXCEPT !.safety_counter = @ + 1, !.cur_data = out,
                                    !.cur_version = m.to_version,
                                    !.applied = Append(@, <<m.from_version, m.to_version>>)]
  /\ UNCHANGED <<storeVars, requests, call, result, adapter, run, batch, ident, registry>>

\* the loop is left: "return cur_data, cur_version"
MigrateReturn ==
  /\ \/ mig.pc = "break"
     \/ mig.pc = "loop" /\ ~KeepWalking(mig.cur_version, mig.target, mig.safety_counter)
  /\ mig' = [mig EXCEPT !.pc = "returned",
                        !.ret = [status |-> "ok", data |-> mig.cur_data, version |-> mig.cur_version]]
  /\ UNCHANGED <<storeVars, requests, call, result, adapter, run, batch, ident, registry>>

NextMigrate == MigrateStart \/ MigrateHop \/ MigrateReturn

SpecMigrate == InitMigrate /\ [][NextMigrate]_vars

\* migrate_data is a coroutine that is run to its end: each of its steps is
\* taken once it can be (its awaits return or raise)
SpecMigrateRuns == SpecMigrate /\ WF_vars(NextMigrate)

\* ------------------------------- build_envelope steps 1 to 4 on their own
\* a kind document, a payload and supplied_schema_version are chosen; the call
\* of migrate_data has to_version = kd.latest_schema_version
InitEnvelope ==
  /\ parent = FALSE
  /\ artifacts = <<>>
  /\ patches = <<>>
  /\ nextId = 1
  /\ requests = 0
  /\ call = [c \in Callers |-> Idle]
  /\ result = [c \in Callers |-> NoResult]
  /\ adapter = NoRun
  /\ run = NoDiffRun
  /\ batch = NoBatch
  /\ ident = NoIdent
  /\ registry = NoRegistry
  /\ \E kind \in EnvelopeKindInputs, kd \in KindDocInputs, d \in DocInputs,
        f \in FromVersionInputs :
       mig = [NoMigration EXCEPT !.kd = kd, !.data = d,
                                 !.from_version = f, !.to_version = kd.latest,
                                 !.envelope.pc = "resolve",
                                 !.envelope.kind_or_alias = kind]

\* "kd = await self._get_kind_doc(kind_or_alias); if not kd: raise ValueError",
\* then the call of migrate_data
EnvelopeResolve ==
  /\ mig.envelope.pc = "resolve"
  /\ IF _get_kind_doc(mig.envelope.kind_or_alias) = NoKind
       THEN mig' = [mig EXCEPT !.envelope.pc = "raised",
                               !.envelope.error = [type |-> "ValueError", site |-> "unknown_kind"]]
       ELSE mig' = [mig EXCEPT !.pc = "call", !.envelope.pc = "migrate"]
  /\ UNCHANGED <<storeVars, requests, call, result, adapter, run, batch, ident, registry>>

\* an awaited call on the database (registry meta, kind lookup, schema version
\* entry, the write of dal.upsert_artifact) fails because the store cannot be
\* reached: the driver's exception, which is not a ValueError, leaves the call
StoreUnreachable ==
  /\ mig.envelope.pc \in {"resolve", "migrate", "adapted", "validated"}
  /\ mig.envelope.status = 0
  /\ mig' = [mig EXCEPT !.pc = IF @ \in {"call", "loop", "break"} THEN "raised" ELSE @,
                        !.envelope.pc = "raised",
                        !.envelope.error = [type |-> "Exception", site |-> "store"]]
  /\ UNCHANGED <<storeVars, requests, call, result, adapter, run, batch, ident, registry>>

\* "migrated, at_version = await self.migrate_data(...)" has returned;
\* "adapted = await self.adapt_data(kd.id, migrated, version=at_version)"
EnvelopeAdapt ==
  /\ mig.pc = "returned"
  /\ mig.envelope.pc = "migrate"
  /\ LET at_version == mig.ret.version
         entry == get_schema_version_entry(mig.kd, at_version)
         adapted == IF mig.ret.status = "ok"
                      THEN adapt_data(mig.kd, mig.ret.data, at_version) ELSE Raise
     IN IF adapted = Raise
          THEN \E type \in IF mig.ret.status = "ok" /\ ~entry.present
                            THEN {"ValueError"} ELSE {"ValueError", "Exception"} :
                 mig' = [mig EXCEPT !.envelope.pc = "raised", !.envelope.at_version = at_version,
                                    !.envelope.error =
                                      [type |-> type,
                                       site |-> IF type = "ValueError" /\ mig.ret.status = "ok"
                                                     /\ ~entry.present
                                                  THEN "schema_version" ELSE "dsl"]]
          ELSE mig' = [mig EXCEPT !.envelope.pc = "adapted", !.envelope.at_version = at_version,
                                  !.envelope.adapted_with = entry.version,
                                  !.envelope.adapted = adapted]
  /\ UNCHANGED <<storeVars, requests, call, result, adapter, run, batch, ident, registry>>

\* "await self.validate_data(kd.id, adapted, version=at_version)": the schema
\* of the entry for at_version accepts the payload or not
EnvelopeValidate ==
  /\ mig.envelope.pc = "adapted"
  /\ LET entry == get_schema_version_entry(mig.kd, mig.envelope.at_version)
     IN \E valid \in BOOLEAN :
          mig' = [mig EXCEPT !.envelope.pc = IF entry.present /\ valid THEN "validated" ELSE "raised",
                             !.envelope.validated_with = entry.version,
                             !.envelope.error =
                               IF entry.present /\ valid THEN NoError
                               ELSE [type |-> "ValueError",
                                     site |-> IF entry.present THEN "validation"
                                              ELSE "schema_version"]]
  /\ UNCHANGED <<storeVars, requests, call, result, adapter, run, batch, ident, registry>>

\* the routes' upsert_artifact around dal.upsert_artifact:
\* "except ValueError: 404", "except Exception: 500"
upsert_error_status(type) ==
  IF type = "ValueError" THEN 404 ELSE 500

\* the upsert route answers: 201 or 200 with the artifact, or the status of
\* the exception that left the call
UpsertRespond ==
  /\ mig.envelope.pc \in {"validated", "raised"}
  /\ mig.envelope.status = 0
  /\ mig' = [mig EXCEPT !.envelope.status =
                IF mig.envelope.pc = "validated" THEN 200
                ELSE upsert_error_status(mig.envelope.error.type)]
  /\ UNCHANGED <<storeVars, requests, call, result, adapter, run, batch, ident, registry>>

NextEnvelope ==
  \/ NextMigrate
  \/ EnvelopeResolve
  \/ EnvelopeAdapt
  \/ EnvelopeValidate
  \/ StoreUnreachable
  \/ UpsertRespond

SpecEnvelope == InitEnvelope /\ [][NextEnvelope]_vars

\* ------------------------------------ _compute_artifacts_diff_for_run alone
\* clients.artifact_service.get_artifacts_by_ids: ids that cannot be fetched
\* are skipped
get_artifacts_by_ids(catalog, ids) ==
  LET hit == SelectSeq(ids, LAMBDA id : id \in DOMAIN catalog)
  IN [i \in DOMAIN hit |-> catalog[hit[i]]]

\* the for-loops over R.items() and L.keys()
Classified(left_docs, right_docs) ==
  LET L == KeyBy(<<>>, left_docs)
      R == KeyBy(<<>>, right_docs)
      rk == Keys(R)
  IN [new |-> sorted(SelectSeq(rk, LAMBDA nk : ~InKeys(L, nk))),
      updated |-> sorted(SelectSeq(rk, LAMBDA nk : InKeys(L, nk) /\ ~Same(Lookup(L, nk), Lookup(R, nk)))),
      unchanged |-> sorted(SelectSeq(rk, LAMBDA nk : InKeys(L, nk) /\ Same(Lookup(L, nk), Lookup(R, nk)))),
      retired |-> sorted(SelectSeq(Keys(L), LAMBDA nk : ~InKeys(R, nk)))]

\* the candidate run's and the resolved baseline run's artifact ids are chosen
InitDiff ==
  /\ parent = FALSE
  /\ artifacts = <<>>
  /\ patches = <<>>
  /\ nextId = 1
  /\ requests = 0
  /\ call = [c \in Callers |-> Idle]
  /\ result = [c \in Callers |-> NoResult]
  /\ adapter = NoRun
  /\ mig = NoMigration
  /\ \E l \in SUBSET RunArtifactIds, r \in SUBSET RunArtifactIds :
       run = [NoDiffRun EXCEPT !.pc = "call", !.left_ids = IdList(l), !.right_ids = IdList(r)]
  /\ batch = NoBatch
  /\ ident = NoIdent
  /\ registry = NoRegistry

\* ArtifactsDiff(new=sorted({_nk(a) for a in right_docs}), updated=[], ...)
NoBaselineDiff(right_docs) ==
  [NoDiff EXCEPT !.new = sorted(Keys(KeyBy(<<>>, right_docs)))]

\* "if not left_ids": everything on the candidate side is new
DiffNoBaseline ==
  /\ run.pc = "call"
  /\ run.left_ids = <<>>
  /\ LET right_docs == get_artifacts_by_ids(run.catalog, run.right_ids)
         diff == NoBaselineDiff(right_docs)
     IN run' = [run EXCEPT !.pc = AssignCounts, !.right_docs = right_docs, !.diff = diff,
                           !.counts = IF ArtifactsDiffAllowsExtra THEN _counts(diff) ELSE @]
  /\ UNCHANGED <<storeVars, requests, call, result, adapter, mig, batch, ident, registry>>

\* left_docs = await get_artifacts_by_ids(workspace_id, left_ids)
DiffFetchLeft ==
  /\ run.pc = "call"
  /\ run.left_ids # <<>>
  /\ run' = [run EXCEPT !.pc = "left",
                        !.left_docs = get_artifacts_by_ids(run.catalog, run.left_ids)]
  /\ UNCHANGED <<storeVars, requests, call, result, adapter, mig, batch, ident, registry>>

\* the artifact service updates an artifact in place while the diff is between
\* its two fetches: same id, new fingerprint
ArtifactChanged(id) ==
  /\ run.pc = "left"
  /\ run.changed = 0
  /\ id \in DOMAIN run.catalog
  /\ run' = [run EXCEPT !.changed = id, !.catalog[id].fingerprint = "fp9"]
  /\ UNCHANGED <<storeVars, requests, call, result, adapter, mig, batch, ident, registry>>

\* right_docs = await get_artifacts_by_ids(workspace_id, right_ids)
DiffFetchRight ==
  /\ run.pc = "left"
  /\ run' = [run EXCEPT !.pc = "fetched",
                        !.right_docs = get_artifacts_by_ids(run.catalog, run.right_ids)]
  /\ UNCHANGED <<storeVars, requests, call, result, adapter, mig, batch, ident, registry>>

\* key both sides, classify, sort, then assign the counts
DiffClassify ==
  /\ run.pc = "fetched"
  /\ LET diff == Classified(run.left_docs, run.right_docs)
     IN run' = [run EXCEPT !.pc = AssignCounts, !.diff = diff,
                           !.counts = IF ArtifactsDiffAllowsExtra THEN _counts(diff) ELSE @]
  /\ UNCHANGED <<storeVars, requests, call, result, adapter, mig, batch, ident, registry>>

NextDiff ==
  \/ DiffNoBaseline
  \/ DiffFetchLeft
  \/ \E id \in RunArtifactIds : ArtifactChanged(id)
  \/ DiffFetchRight
  \/ DiffClassify

SpecDiff == InitDiff /\ [][NextDiff]_vars

\* ------------------------------------ POST /{workspace_id}/upsert-batch alone
\* payload.items: up to MaxBatch items
MaxBatch == 3

BatchItemInputs ==
  [kind : KindInputs, name : NameInputs, data : DataInputs, provenance : ProvInputs]

BatchInputs == UNION {[1..n -> BatchItemInputs] : n \in 0..MaxBatch}

\* the request is accepted: results = [], counts all 0
InitBatch ==
  /\ parent \in BOOLEAN
  /\ artifacts = <<>>
  /\ patches = <<>>
  /\ nextId = 1
  /\ requests = 0
  /\ call = [c \in Callers |-> Idle]
  /\ result = [c \in Callers |-> NoResult]
  /\ adapter = NoRun
  /\ mig = NoMigration
  /\ run = NoDiffRun
  /\ \E items \in BatchInputs : batch = [NoBatch EXCEPT !.pc = "loop", !.items = items]
  /\ ident = NoIdent
  /\ registry = NoRegistry

ItemFailedAbort(b) ==
  [b EXCEPT !.counts.failed = @ + 1,
            !.results = Append(@, [error |-> TRUE, artifact_id |-> 0, natural_key |-> "",
                                   op |-> "", version |-> 0]),
            !.pc = "returned"]

\* "except Exception as e: counts['failed'] += 1; results.append({'error': str(e)})"
ItemFailed(b) ==
  [b EXCEPT !.counts.failed = @ + 1,
            !.results = Append(@, [error |-> TRUE, artifact_id |-> 0, natural_key |-> "",
                                   op |-> "", version |-> 0]),
            !.i = @ + 1]

\* the try body after dal.upsert_artifact returned (art, op): the count, the
\* result entry, and the per-item event, whose outcome is not looked at
ItemDone(b, art, op, published) ==
  [b EXCEPT !.counts = [@ EXCEPT ![op] = @ + 1],
            !.results = Append(@, [error |-> FALSE, artifact_id |-> art.artifact_id,
                                   natural_key |-> art.natural_key, op |-> op,
                                   version |-> art.version]),
            !.published = IF op = "noop" THEN @ ELSE Append(@, published),
            !.i = @ + 1]

\* one pass of "for item in payload.items": dal.upsert_artifact on the item,
\* then the try body or the except branch
upsert_batch_item ==
  /\ batch.pc = "loop"
  /\ batch.i <= Len(batch.items)
  /\ UNCHANGED <<parent, patches, requests, call, result, adapter, mig, run, ident, registry>>
  /\ LET item == batch.items[batch.i]
         env == build_envelope(item.kind, item.name, item.data)
         existing == IF parent /\ env.ok THEN LiveWithKey(env.kind, env.natural_key) ELSE <<>>
     IN IF ~env.ok \/ ~parent
          THEN /\ UNCHANGED <<artifacts, nextId>>
               /\ batch' = ItemFailed(batch)
          ELSE IF existing = <<>>
            THEN /\ artifacts' = add_artifact(env, item.provenance)
                 /\ nextId' = nextId + 1
                 /\ \E published \in BOOLEAN :
                      batch' = ItemDone(batch, PickFrom(artifacts', nextId), "insert", published)
            ELSE IF existing[1].fingerprint = env.fingerprint
              THEN /\ UNCHANGED <<artifacts, nextId>>
                   /\ batch' = ItemDone(batch, existing[1], "noop", TRUE)
              ELSE /\ artifacts' = upsert_update(existing[1].artifact_id, env, item.provenance)
                   /\ UNCHANGED nextId
                   /\ \E published \in BOOLEAN :
                        batch' = ItemDone(batch, PickFrom(artifacts', existing[1].artifact_id),
                                          "update", published)

\* after the loop: summary = {"counts": counts, "results": results}
upsert_batch_return ==
  /\ batch.pc = "loop"
  /\ batch.i > Len(batch.items)
  /\ batch' = [batch EXCEPT !.pc = "returned"]
  /\ UNCHANGED <<storeVars, requests, call, result, adapter, mig, run, ident, registry>>

NextBatch ==
  \/ upsert_batch_item
  \/ upsert_batch_return
  \/ WorkspaceCreated
  \/ WorkspaceDeleted

SpecBatch == InitBatch /\ [][NextBatch]_vars

\* ------------------------------- build_envelope step 5: identity on its own
IdentKindInputs == { <<"cam.x">>, <<"CAM.X">> }

IdentNameInputs == { <<"D", "o", "c">>, <<" ", "D", "o", "c", " ">>, <<" ">>, <<>> }

IdentSpecInputs ==
  { [natural_key |-> nk] :
      nk \in { NoNaturalKey,
               PathList(<<>>),
               PathList(<< <<"name">> >>),
               PathList(<< <<"data", "a">> >>),
               PathList(<< <<"data", "a">>, <<"name">> >>),
               OnePath(<<"data", "a">>) } }

\* payloads: the identity field data.a as a string, absent, null, or an object
\* written with its keys in either order; other content under b
IdentDataInputs ==
  { Obj(<<KV("a", Str(<<" ", "A", " ">>))>>),
    Obj(<<KV("a", Str(<<" ", "A", " ">>)), KV("b", Num(1))>>),
    Obj(<<KV("b", Num(1)), KV("a", Str(<<" ", "A", " ">>))>>),
    Obj(<<KV("a", Str(<<"a">>)), KV("b", Num(2))>>),
    Obj(<<KV("b", Num(1))>>),
    Obj(<<KV("a", Null)>>),
    Obj(<<KV("a", Obj(<<KV("a", Num(1)), KV("b", Num(1))>>))>>),
    Obj(<<KV("a", Obj(<<KV("b", Num(1)), KV("a", Num(1))>>))>>) }

InitIdentity ==
  /\ parent = FALSE
  /\ artifacts = <<>>
  /\ patches = <<>>
  /\ nextId = 1
  /\ requests = 0
  /\ call = [c \in Callers |-> Idle]
  /\ result = [c \in Callers |-> NoResult]
  /\ adapter = NoRun
  /\ mig = NoMigration
  /\ run = NoDiffRun
  /\ batch = NoBatch
  /\ registry = NoRegistry
  /\ \E k \in IdentKindInputs, n \in IdentNameInputs, s \in IdentSpecInputs, d \in IdentDataInputs :
       ident = [NoIdent EXCEPT !.pc = "call", !.kind_id = k, !.name = n,
                               !.ident_spec = s, !.data = d]

\* "natural_key = _compute_natural_key(kd.id, name, ident_spec, adapted)" and
\* "fingerprint = _sha256(_canonical(adapted))"
ComputeIdentity ==
  /\ ident.pc = "call"
  /\ ident' = [ident EXCEPT !.pc = "done",
                            !.natural_key = _compute_natural_key(ident.kind_id, ident.name,
                                                                 ident.ident_spec, ident.data),
                            !.fingerprint = Fingerprint(ident.data)]
  /\ UNCHANGED <<storeVars, requests, call, result, adapter, mig, run, batch, registry>>

NextIdentity == ComputeIdentity

SpecIdentity == InitIdentity /\ [][NextIdentity]_vars

\* ------------------------- the registry cache under concurrent callers
\* the other variables stay as constructed
RegistryFrame ==
  UNCHANGED <<storeVars, requests, call, result, adapter, mig, run, batch, ident>>

InitRegistry ==
  /\ parent = FALSE
  /\ artifacts = <<>>
  /\ patches = <<>>
  /\ nextId = 1
  /\ requests = 0
  /\ call = [c \in Callers |-> Idle]
  /\ result = [c \in Callers |-> NoResult]
  /\ adapter = NoRun
  /\ mig = NoMigration
  /\ run = NoDiffRun
  /\ batch = NoBatch
  /\ ident = NoIdent
  /\ registry = NoRegistry

\* kind_registry_dal.upsert_kind: a kind document is added or replaced and the
\* registry's change token changes
upsert_kind(id, rev) ==
  /\ registry.writes < MaxRegistryWrites
  /\ registry' = [registry EXCEPT !.kinds[id] = KindDoc(id, rev),
                                  !.etag = @ + 1,
                                  !.writes = @ + 1]
  /\ RegistryFrame

\* a caller calls refresh_cache(force) directly
StartRefresh(c, force) ==
  /\ registry.proc[c].pc = "idle"
  /\ registry.calls < MaxRegistryCalls
  /\ registry' = [registry EXCEPT !.calls = @ + 1,
                                  !.proc[c] = [NoLookup EXCEPT !.pc = "meta", !.op = "refresh",
                                                               !.force = force]]
  /\ RegistryFrame

\* a caller calls _get_kind_doc(kind_or_alias): "await self.refresh_cache()"
StartGetKindDoc(c, kind_or_alias) ==
  /\ registry.proc[c].pc = "idle"
  /\ registry.calls < MaxRegistryCalls
  /\ registry' = [registry EXCEPT !.calls = @ + 1,
                                  !.proc[c] = [NoLookup EXCEPT !.pc = "meta", !.op = "get",
                                                               !.name = kind_or_alias]]
  /\ RegistryFrame

\* where a caller goes when its refresh_cache returns
AfterRefresh(p) ==
  IF p.op = "get" THEN [p EXCEPT !.pc = "lookup"] ELSE NoLookup

\* "meta = await get_registry_meta(self.db)" and the token check
RefreshMeta(c) ==
  /\ registry.proc[c].pc = "meta"
  /\ LET p == registry.proc[c]
     IN IF CacheIsCurrent(p.force, registry._etag, registry.etag)
          THEN registry' = [registry EXCEPT !.proc[c] = AfterRefresh(p)]
          ELSE registry' = [registry EXCEPT !.proc[c] = [p EXCEPT !.pc = "list",
                                                                  !.meta = registry.etag]]
  /\ RegistryFrame

\* "all_docs = await list_kinds(self.db, limit=2000)"
RefreshList(c) ==
  /\ registry.proc[c].pc = "list"
  /\ registry' = [registry EXCEPT !.proc[c].pc = "assign",
                                  !.proc[c].all_docs = registry.kinds]
  /\ RegistryFrame

\* "self._kinds = kinds; self._aliases = aliases; self._etag = meta.etag"
RefreshAssign(c) ==
  /\ registry.proc[c].pc = "assign"
  /\ LET p == registry.proc[c]
     IN registry' = [registry EXCEPT !._kinds = p.all_docs,
                                     !._aliases = BuildAliases(p.all_docs),
                                     !._etag = p.meta,
                                     !.proc[c] = AfterRefresh([p EXCEPT !.meta = 0,
                                                                        !.all_docs = NoKinds])]
  /\ RegistryFrame

\* the fast path of _get_kind_doc
GetKindDocFast(c) ==
  /\ registry.proc[c].pc = "lookup"
  /\ LET p == registry.proc[c]
     IN IF CacheLookup(registry._kinds, registry._aliases, p.name) # NoKindDoc
          THEN registry' = [registry EXCEPT !.proc[c] = NoLookup]
          ELSE registry' = [registry EXCEPT !.proc[c].pc = "slow"]
  /\ RegistryFrame

\* "kd = await dal_resolve_kind(self.db, kind_or_alias)"
GetKindDocSlowRead(c) ==
  /\ registry.proc[c].pc = "slow"
  /\ registry' = [registry EXCEPT !.proc[c].pc = "slow_update",
                                  !.proc[c].kd = dal_resolve_kind(registry.kinds,
                                                                  registry.proc[c].name)]
  /\ RegistryFrame

\* "if kd: self._kinds[kd.id] = kd; for a in kd.aliases: self._aliases[a] = kd.id"
GetKindDocSlowUpdate(c) ==
  /\ registry.proc[c].pc = "slow_update"
  /\ LET kd == registry.proc[c].kd
     IN IF kd = NoKindDoc
          THEN registry' = [registry EXCEPT !.proc[c] = NoLookup]
          ELSE registry' = [registry EXCEPT !._kinds = SlowPutKind(@, kd),
                                            !._aliases = SlowPutAliases(@, kd),
                                            !.proc[c] = NoLookup]
  /\ RegistryFrame

NextRegistry ==
  \/ \E id \in CacheKindIds, rev \in KindRevisions : upsert_kind(id, rev)
  \/ \E c \in Callers, force \in BOOLEAN : StartRefresh(c, force)
  \/ \E c \in Callers, name \in CacheKindIds \cup AliasNames : StartGetKindDoc(c, name)
  \/ \E c \in Callers : RefreshMeta(c)
  \/ \E c \in Callers : RefreshList(c)
  \/ \E c \in Callers : RefreshAssign(c)
  \/ \E c \in Callers : GetKindDocFast(c)
  \/ \E c \in Callers : GetKindDocSlowRead(c)
  \/ \E c \in Callers : GetKindDocSlowUpdate(c)

SpecRegistry == InitRegistry /\ [][NextRegistry]_vars

\* ------------------------------------------------------------------ claims
IsInt(h) == _parse_if_match(h).ok /\ ~_parse_if_match(h).none

CondWrite(r) == r.op \in {"replace", "patch"} /\ r.status = 200 /\ IsInt(r.if_match)

\* C1: of two patch/replace calls on one artifact that carry the same expected
\* version, at most one succeeds (the other gets 412), so the version they were
\* both conditioned on is left exactly once.
C1_ExactlyOneWins ==
  \A c1, c2 \in Callers :
    (c1 # c2 /\ CondWrite(result[c1]) /\ CondWrite(result[c2])
       /\ result[c1].target = result[c2].target)
      => result[c1].if_match # result[c2].if_match

\* C2: at most one non-deleted artifact per (workspace, kind, natural key).
C2_UniqueLiveNaturalKey ==
  \A i, j \in DOMAIN artifacts :
    (i # j /\ ~artifacts[i].deleted_at /\ ~artifacts[j].deleted_at
       /\ artifacts[i].kind = artifacts[j].kind)
      => artifacts[i].natural_key # artifacts[j].natural_key

\* the live artifact an upsert of this envelope finds, if any
Found(env) == LiveWithKey(env.kind, env.natural_key)

C4_PreconditionFailed ==
  [][\A c \in Callers, id \in ArtifactIds, h \in IfMatchInputs :
       ( /\ Live(get_artifact(id))
         /\ IsInt(h)
         /\ _parse_if_match(h).v # get_artifact(id).version
         /\ \/ \E data \in DataInputs, prov \in ProvInputs : ReplaceRead(c, id, h, data, prov)
            \/ \E patch \in PatchInputs, prov \in ProvInputs : PatchRead(c, id, h, patch, prov) )
       => /\ result'[c].status = 412
          /\ call'[c].pc = "idle"
          /\ artifacts' = artifacts
          /\ patches' = patches]_vars

C4_Witness ==
  \E c \in Callers :
    /\ result[c].op = "patch" /\ result[c].status = 412 /\ result[c].if_match = "1"
    /\ Live(get_artifact(result[c].target))
    /\ get_artifact(result[c].target).version = 2

\* the version a write step hands back to its handler as the new ETag
Token(c, cl, rs) == IF cl[c].pc = "patch_record" THEN cl[c].updated ELSE rs[c].etag

\* C5: a new artifact starts at version 1; in every step an artifact's version
\* stays or grows by exactly 1, and it grows exactly in the write step of an
\* upsert update, a replace or a patch on that artifact, which returns the new
\* stored version as its ETag.
C5_VersionSteps ==
  [][/\ \A i \in DOMAIN artifacts' :
          LET id == artifacts'[i].artifact_id
              new == artifacts'[i].version
              old == PickFrom(artifacts, id).version
          IN IF PickFrom(artifacts, id) = NoArtifact
               THEN new = 1
               ELSE \/ new = old
                    \/ /\ new = old + 1
                       /\ \E c \in Callers :
                            /\ call[c].pc \in {"upsert_update", "replace_write", "patch_write"}
                            /\ call[c].target = id
                            /\ call'[c] # call[c]
                            /\ Token(c, call', result') = new
     /\ \A c \in Callers :
          (call[c].pc \in {"upsert_update", "replace_write", "patch_write"}
             /\ call'[c] # call[c] /\ PickFrom(artifacts, call[c].target) # NoArtifact)
            => PickFrom(artifacts', call[c].target).version
                 = PickFrom(artifacts, call[c].target).version + 1
     /\ \A c \in Callers :
          (call[c].pc = "patch_record" /\ call'[c] # call[c])
            => result'[c].status = 200 /\ result'[c].etag = call[c].updated]_vars

C5_Witness ==
  \E c \in Callers :
    /\ result[c].op = "patch" /\ result[c].status = 200 /\ result[c].etag = 3
    /\ get_artifact(result[c].target).version = 3

\* C6: every stored artifact's fingerprint is the hash of its stored payload.
C6_FingerprintOfPayload ==
  \A i \in DOMAIN artifacts :
    artifacts[i].fingerprint = _sha256(Canon(artifacts[i].data))

\* C7: an upsert whose insert reaches the store after another caller has
\* created the same (workspace, kind, natural key) still succeeds, as the
\* update or noop of a read-then-update retry, never as a second insert.
C7_LosingInsertRetried ==
  [][\A c \in Callers :
       (call[c].pc = "upsert_insert" /\ call'[c] # call[c] /\ parent
          /\ Found(call[c].env) # <<>>)
         => result'[c].status = 200 /\ result'[c].xop \in {"update", "noop"}]_vars

\* C8: deleting an artifact that is absent or already soft-deleted answers 404,
\* leaves the artifact array as it is and publishes no deleted event.
C8_DeleteOnlyLive ==
  [][\A c \in Callers, id \in ArtifactIds :
       (delete_artifact(c, id) /\ ~Live(get_artifact(id)))
         => result'[c].status = 404 /\ result'[c].event = "" /\ artifacts' = artifacts]_vars

\* some other caller's last answer is the successful soft delete of id
DeletedBefore(c, id) ==
  \E d \in Callers \ {c} :
    result[d].op = "delete" /\ result[d].status = 204 /\ result[d].target = id

\* C9: once an artifact has been soft-deleted, get and head answer 404 for it,
\* a default list leaves it out, and a list with include_deleted has it.
C9_ReadsAfterDelete ==
  [][\A c \in Callers, id \in ArtifactIds :
       DeletedBefore(c, id) =>
         /\ (get_artifact_route(c, id) \/ head_artifact(c, id)) => result'[c].status = 404
         /\ list_artifacts_route(c, FALSE) => id \notin result'[c].listed
         /\ list_artifacts_route(c, TRUE) => id \in result'[c].listed]_vars

\* C9 as amended: for an artifact that has been soft-deleted (a caller was
\* answered 204, or the stored item carries the deleted timestamp) get and head
\* answer 404 and a default list leaves it out; a list with include_deleted
\* has it as long as the workspace's parent document has not been removed.
C9_ReadsAfterDeleteWhileStored ==
  [][\A c \in Callers, id \in ArtifactIds :
       (DeletedBefore(c, id) \/ get_artifact(id).deleted_at) =>
         /\ (get_artifact_route(c, id) \/ head_artifact(c, id)) => result'[c].status = 404
         /\ list_artifacts_route(c, FALSE) => id \notin result'[c].listed
         /\ (list_artifacts_route(c, TRUE) /\ get_artifact(id) # NoArtifact)
              => id \in result'[c].listed]_vars

C9_Witness ==
  \E c \in Callers, id \in ArtifactIds :
    /\ DeletedBefore(c, id)
    /\ get_artifact(id).deleted_at
    /\ result[c].op = "list" /\ result[c].xop = "include_deleted" /\ id \in result[c].listed

\* C10: adapters are idempotent: applying a rule to a document the same rule
\* has already adapted yields the same document,
\* apply(apply(doc, rule), rule) = apply(doc, rule).
C10_AdapterIdempotent ==
  adapter.runs = 2 => JsonEq(adapter.out, adapter.first)

\* C11: for the kind whose migrators form the chain v1 -> v2 -> v3, migrating a
\* v1 document with the default target (or target v3) applies the v1->v2 and
\* then the v2->v3 migrator and returns version v3; with target v2 it applies
\* the v1->v2 migrator only and returns version v2.
C11_MigrationChain ==
  (mig.pc = "returned" /\ mig.kd = ChainKind /\ mig.from_version = "v1") =>
    IF mig.to_version = "v2"
      THEN /\ mig.ret.status = "ok" /\ mig.ret.version = "v2"
           /\ mig.applied = << <<"v1", "v2">> >>
           /\ mig.ret.data = _apply_adapter_dsl(mig.data, DslAtoB)
      ELSE /\ mig.ret.status = "ok" /\ mig.ret.version = "v3"
           /\ mig.applied = << <<"v1", "v2">>, <<"v2", "v3">> >>
           /\ mig.ret.data = _apply_adapter_dsl(_apply_adapter_dsl(mig.data, DslAtoB), DslBtoC)

C11_Witness ==
  /\ mig.pc = "returned" /\ mig.kd = ChainKind /\ mig.from_version = "v1"
  /\ mig.to_version = "v2"
  /\ mig.data = Obj(<<KV("a", Num(5))>>)
  /\ mig.ret.version = "v2"
  /\ mig.ret.data = Obj(<<KV("b", Num(5))>>)

Elems(xs) == {xs[i] : i \in DOMAIN xs}

DocKeys(docs) == {_nk(docs[i]) : i \in DOMAIN docs}

\* the document a side holds for a natural key (the last one fetched)
Side(docs, nk) == Lookup(KeyBy(<<>>, docs), nk)

\* the diff function has ended, by return or by an exception
DiffEnded == run.pc \in {"returned", "raised"}

\* C12: the run diff puts a natural key in new when only the candidate side
\* has it, in retired when only the baseline side has it, in updated when both
\* sides have it and the artifact id or the fingerprint differs, and in
\* unchanged otherwise; baseline {A: fp1, B: fp2} against candidate
\* {A: fp1, B: fp3, C: fp4} gives new=[C], updated=[B], unchanged=[A], retired=[].
C12_DiffClassification ==
  (DiffEnded /\ run.left_ids # <<>>) =>
    LET lk == DocKeys(run.left_docs)
        rk == DocKeys(run.right_docs)
        differs(nk) ==
          \/ Side(run.left_docs, nk).artifact_id # Side(run.right_docs, nk).artifact_id
          \/ Side(run.left_docs, nk).fingerprint # Side(run.right_docs, nk).fingerprint
    IN /\ run.pc = "returned"
       /\ Elems(run.diff.new) = rk \ lk
       /\ Elems(run.diff.retired) = lk \ rk
       /\ Elems(run.diff.updated) = {nk \in lk \cap rk : differs(nk)}
       /\ Elems(run.diff.unchanged) = {nk \in lk \cap rk : ~differs(nk)}
       /\ (run.left_ids = <<1, 2>> /\ run.right_ids = <<2, 3, 4>> /\ run.changed = 0)
            => /\ run.diff.new = <<"c">> /\ run.diff.updated = <<"b">>
               /\ run.diff.unchanged = <<"a">> /\ run.diff.retired = <<>>

\* C13: with an empty resolved baseline id list the diff reports every
\* candidate natural key, once, as new, and updated, unchanged and retired as
\* empty lists.
C13_EmptyBaselineAllNew ==
  (DiffEnded /\ run.left_ids = <<>>) =>
    /\ run.pc = "returned"
    /\ Elems(run.diff.new) = DocKeys(get_artifacts_by_ids(run.catalog, run.right_ids))
    /\ Len(run.diff.new) = Cardinality(Elems(run.diff.new))
    /\ run.diff.updated = <<>>
    /\ run.diff.unchanged = <<>>
    /\ run.diff.retired = <<>>
    /\ run.counts = [new |-> Len(run.diff.new), updated |-> 0, unchanged |-> 0,
                     retired |-> 0, deleted |-> 0]

\* the alias ids of the registry
AliasIds == UNION {ALIASES[kd] : kd \in RegisteredKinds}

CountSum(counts) == counts.insert + counts.update + counts.noop + counts.failed

\* C15: a batch of n items ends with n result entries, in input order, and
\* counts that sum to n.  Each pass of the loop adds one entry for its item:
\* an error, or the artifact now in the store with its op; an item that can
\* be committed (its kind resolves and the workspace exists) is committed
\* whatever happened to the items before it.
C15_BatchFinal ==
  batch.pc = "returned" =>
    /\ Len(batch.results) = Len(batch.items)
    /\ CountSum(batch.counts) = Len(batch.items)
    /\ \A k \in DOMAIN batch.results :
         LET e == batch.results[k]
             env == build_envelope(batch.items[k].kind, batch.items[k].name, batch.items[k].data)
         IN IF e.error THEN e.op = ""
            ELSE /\ e.op \in {"insert", "update", "noop"}
                 /\ env.ok /\ e.natural_key = env.natural_key

C15_BatchStep ==
  (batch.pc = "loop" /\ batch'.i = batch.i + 1) =>
    LET item == batch.items[batch.i]
        env == build_envelope(item.kind, item.name, item.data)
        e == batch'.results[batch.i]
    IN /\ Len(batch'.results) = batch.i
       /\ SubSeq(batch'.results, 1, batch.i - 1) = batch.results
       /\ CountSum(batch'.counts) = batch.i
       /\ e.error <=> (~env.ok \/ ~parent)
       /\ e.error => artifacts' = artifacts
       /\ ~e.error =>
            LET art == PickFrom(artifacts', e.artifact_id)
            IN /\ Live(art)
               /\ art.natural_key = e.natural_key /\ art.version = e.version
               /\ art.fingerprint = env.fingerprint

C15_BatchUpsert == []C15_BatchFinal /\ [][C15_BatchStep]_vars

\* a batch of three items has returned: the first failed, the second was
\* inserted after it, the third updated the second's artifact
C15_Witness ==
  /\ batch.pc = "returned"
  /\ Len(batch.items) = 3
  /\ batch.results[1].error
  /\ batch.results[2].op = "insert"
  /\ batch.results[3].op = "update"
  /\ batch.counts = [insert |-> 1, update |-> 1, noop |-> 0, failed |-> 1]

\* caller c's request ends in this step
Ends(c) ==
  /\ call'[c].pc = "idle"
  /\ call[c].pc # "idle" \/ result'[c] # result[c]

\* C16: when the publication of the event fails at the end of an upsert, a
\* replace, a patch or a soft delete, the caller still gets the operation's
\* success result and the write stays in the store: the artifact written by
\* the request is there, at the version the response names, with the payload
\* the request wrote (or, for a delete, marked deleted); a patch, whose write
\* was an earlier step, leaves the store as it is and has its patch record.
C16_PublishFailureKeepsWrite ==
  \A c \in Callers :
    (Ends(c) /\ result'[c].published = "false") =>
      LET r == result'[c]
          art == PickFrom(artifacts', r.target)
      IN /\ r.op \in {"upsert", "replace", "patch", "delete"}
         /\ r.status = (CASE r.xop = "insert" -> 201 [] r.op = "delete" -> 204 [] OTHER -> 200)
         /\ r.op # "patch" => art # NoArtifact
         /\ CASE r.op = "delete" -> art.deleted_at /\ artifacts' = soft_delete_artifact(r.target)
              [] r.op = "upsert" ->
                   /\ artifacts' # artifacts
                   /\ art.version = r.etag
                   /\ art.data = call[c].env.data /\ art.fingerprint = call[c].env.fingerprint
              [] r.op = "replace" ->
                   /\ artifacts' = replace_artifact(r.target, call[c].new_data, call[c].prov)
                   /\ art.version = r.etag /\ art.data = call[c].new_data
              [] r.op = "patch" ->
                   /\ artifacts' = artifacts
                   /\ r.etag = call[c].updated
                   /\ patches' = record_patch(r.target, call[c].from_version, r.etag,
                                              call[c].patch, call[c].prov)

C16_BestEffortPublish == [][C16_PublishFailureKeepsWrite]_vars

\* both callers got a success result with a failed publication: one for the
\* insert of an artifact, one for a replace, and the artifact is in the store
\* at the replaced version
C16_Witness ==
  \E c, d \in Callers :
    /\ result[c].published = "false" /\ result[c].xop = "insert" /\ result[c].status = 201
    /\ result[d].published = "false" /\ result[d].op = "replace" /\ result[d].status = 200
    /\ result[d].target = result[c].target
    /\ get_artifact(result[d].target).version = 2

\* the field paths of an identity rule
IdentityPaths(ident_spec) ==
  CASE ident_spec.natural_key.t = "list" -> ident_spec.natural_key.v
    [] ident_spec.natural_key.t = "str" -> << ident_spec.natural_key.v >>
    [] OTHER -> <<>>

\* the value a payload has at an identity path ('' when there is none)
IdentityValue(name, data, path) ==
  _dot_get(Obj(<<KV("data", data), KV("name", Str(name))>>), path, Str(<<>>))

\* two payloads agree on the identity fields
SameIdentityFields(ident_spec, name, d1, d2) ==
  \A i \in DOMAIN IdentityPaths(ident_spec) :
    JsonEq(IdentityValue(name, d1, IdentityPaths(ident_spec)[i]),
           IdentityValue(name, d2, IdentityPaths(ident_spec)[i]))

Trimmed(text) == text = <<>> \/ (~IsSpace(text[1]) /\ ~IsSpace(text[Len(text)]))

LowerCased(text) == \A i \in DOMAIN text : LowerOf(text[i]) = text[i]

\* the key is the kind id followed by ":" and the usable values, each trimmed
\* and lower-cased, joined with ":"; kind:name lower-cased when none is usable
C17_KeyShape ==
  ident.pc = "done" =>
    LET paths == IdentityPaths(ident.ident_spec)
        parts == SelectSeq([i \in DOMAIN paths |-> NkPart(ident.name, ident.data, paths[i])],
                           LAMBDA p : p # <<>>)
    IN /\ \A i \in DOMAIN parts : Trimmed(parts[i]) /\ LowerCased(parts[i])
       /\ IF parts # <<>>
            THEN ident.natural_key = ident.kind_id \o <<":">> \o str_join(<<":">>, parts)
            ELSE ident.natural_key = str_lower(ident.kind_id \o <<":">> \o ident.name)

\* every payload that agrees with this one on the identity fields gets the
\* same key
C17_SameFieldsSameKey ==
  ident.pc = "done" =>
    \A d2 \in IdentDataInputs :
      SameIdentityFields(ident.ident_spec, ident.name, ident.data, d2) =>
        _compute_natural_key(ident.kind_id, ident.name, ident.ident_spec, d2) = ident.natural_key

\* C17: the natural key is a function of the kind id, the name and the values
\* at the identity rule's paths only: the kind id, then each usable value
\* trimmed and lower-cased, joined with ":"; kind:name lower-cased when no
\* path gives a usable value; payloads that agree on the identity fields get
\* the same key whatever else they hold.
C17_NaturalKeyDeterministic == C17_KeyShape /\ C17_SameFieldsSameKey

RECURSIVE SameContent(_, _)
\* two JSON values hold the same content: the same keys with the same content
\* under each, whatever the order the keys are written in; the same elements
\* in the same order; the same leaf
SameContent(x, y) ==
  IF IsObj(x) /\ IsObj(y)
    THEN /\ {x.v[i].k : i \in DOMAIN x.v} = {y.v[i].k : i \in DOMAIN y.v}
         /\ \A i \in DOMAIN x.v : SameContent(x.v[i].v, ObjGet(y, x.v[i].k))
    ELSE IF IsArr(x) /\ IsArr(y)
      THEN /\ Len(x.v) = Len(y.v)
           /\ \A i \in DOMAIN x.v : SameContent(x.v[i], y.v[i])
      ELSE x = y

\* C18: the fingerprint depends on the payload's content only: a payload that
\* differs from this one in the order of object keys only has the same
\* fingerprint, and a payload that differs in a leaf value (or in the keys it
\* has) has a different one.
C18_FingerprintOfContent ==
  ident.pc = "done" =>
    \A d2 \in IdentDataInputs :
      SameContent(ident.data, d2) <=> (Fingerprint(d2) = ident.fingerprint)

\* a payload has been fingerprinted for which the inputs hold the same
\* content written in another key order, at the top and inside a member, and
\* a payload with the same keys and another leaf value
C18_Witness ==
  /\ ident.pc = "done"
  /\ ident.fingerprint = Fingerprint(ident.data)
  /\ \E d2 \in IdentDataInputs : d2 # ident.data /\ SameContent(ident.data, d2)
  /\ \E d3 \in IdentDataInputs :
       /\ ~SameContent(ident.data, d3)
       /\ {ident.data.v[i].k : i \in DOMAIN ident.data.v} = {d3.v[i].k : i \in DOMAIN d3.v}

\* the patch records of an artifact's change to a version
RecordsOf(log, id, to_version) ==
  {i \in DOMAIN log : log[i].artifact_id = id /\ log[i].to_version = to_version}

\* no step changes or removes a patch record
C19_AppendOnly ==
  /\ Len(patches') >= Len(patches)
  /\ SubSeq(patches', 1, Len(patches)) = patches

\* a patch or a replace that ends with success has its one record
C19_Recorded ==
  \A c \in Callers :
    (Ends(c) /\ result'[c].op \in {"patch", "replace"} /\ result'[c].status = 200) =>
      Cardinality(RecordsOf(patches', result'[c].target, result'[c].etag)) = 1

\* C19: the patch history is append-only and complete: no step changes or
\* removes a patch record, and every patch and every replace that succeeds,
\* and so changes the artifact's version, has exactly one record for the
\* version it produced.
C19_PatchHistory == [][C19_AppendOnly /\ C19_Recorded]_vars

\* C20: whenever build_envelope has applied adapters or validated, the
\* adapters and the schema are those of the kind's latest schema version,
\* also when the payload declared an older version and the migrators did not
\* lead to the latest version.
C20_LatestAdaptersAndSchema ==
  /\ mig.envelope.pc \in {"adapted", "validated"} => mig.envelope.adapted_with = mig.kd.latest
  /\ mig.envelope.validated_with # NoVersion => mig.envelope.validated_with = mig.kd.latest

\* the walk was cut by the hop bound: the loop was left with the bound used
\* up and the target not reached
HopBoundExceeded ==
  /\ mig.pc = "returned"
  /\ mig.safety_counter >= HopBound
  /\ mig.cur_version # mig.target

\* C21: when the walk of the migrator chain exceeds the hop bound, migrate_data
\* reports an error; it does not return a document and a version as a normal
\* result.
C21_HopBoundIsError ==
  HopBoundExceeded => mig.ret.status = "error"

\* the payload declares a from_version that is not a schema version of its kind
UnknownFromVersion ==
  /\ mig.from_version # NoVersion
  /\ ~get_schema_version_entry(mig.kd, mig.from_version).present

\* C22: a payload that declares a from_version that is not a schema version of
\* its kind fails closed: build_envelope never gets past adaptation with it,
\* so no envelope is produced for the store, and once migrate_data has
\* returned the call ends with an error.
C22_UnknownFromVersionFailsClosed ==
  UnknownFromVersion =>
    /\ mig.envelope.pc \notin {"adapted", "validated"}
    /\ mig.envelope.adapted = Null
    /\ (mig.pc = "returned" /\ mig.envelope.pc # "migrate") => mig.envelope.pc = "raised"

\* an unknown from_version went through migrate_data unmigrated and the
\* envelope was refused
C22_Witness ==
  /\ UnknownFromVersion
  /\ mig.ret.status = "ok"
  /\ mig.ret.version = mig.from_version
  /\ mig.ret.data = mig.data
  /\ mig.data # Null
  /\ mig.envelope.pc = "raised"

\* C23: the answer of an upsert distinguishes its error kinds: an unknown kind
\* or alias is answered 404 (NotFound), a schema violation after migration and
\* adaptation is never answered 404, and an unreachable store is answered with
\* a server error, never 404.
C23_ErrorKindsDistinguished ==
  mig.envelope.status # 0 =>
    /\ mig.envelope.error.site = "unknown_kind" => mig.envelope.status = 404
    /\ mig.envelope.error.site = "validation" => mig.envelope.status # 404
    /\ mig.envelope.error.site = "store" => mig.envelope.status >= 500

\* when the cached token is the store's token, the cached maps are the store's
C24_CacheCoherent ==
  registry._etag = registry.etag =>
    /\ registry._kinds = registry.kinds
    /\ registry._aliases = BuildAliases(registry.kinds)

\* the token check of a refresh returns without rebuilding exactly when force
\* is false and the cached token is the store's
C24_NoOpStep ==
  \A c \in Callers :
    (registry.proc[c].pc = "meta" /\ registry'.proc[c].pc # "meta") =>
      ((registry'.proc[c].pc # "list") <=>
         (~registry.proc[c].force /\ registry._etag = registry.etag))

CanHop ==
  LET entry == get_schema_version_entry(mig.kd, mig.cur_version)
  IN entry.present /\ FirstMigrator(entry, mig.cur_version).to_version # NoVersion

\* never more than the hop bound of loop iterations or migrator applications
C25_Bounded ==
  /\ mig.safety_counter <= HopBound
  /\ Len(mig.applied) <= HopBound

\* a walk that returned normally from the loop stopped for one of the three
\* reasons
C25_StopReason ==
  (mig.pc = "returned" /\ mig.ret.status = "ok" /\ mig.cur_version # NoVersion) =>
    \/ mig.cur_version = mig.target
    \/ ~CanHop
    \/ mig.safety_counter = HopBound

\* a migrator is applied only while none of the three reasons holds
C25_HopStep ==
  mig'.applied # mig.applied =>
    /\ mig.cur_version # mig.target
    /\ CanHop
    /\ mig.safety_counter < HopBound
    /\ Len(mig'.applied) = Len(mig.applied) + 1

\* C25: migration always terminates: for every kind document (chain, cycle,
\* dangling, branching, gap) and every from/target version pair the call of
\* migrate_data ends, after at most 50 migrator applications, and the walk
\* stops at the first of: target reached, no schema entry or matching
\* migrator for the current version, hop bound reached.
C25_MigrationTerminates ==
  /\ [](C25_Bounded /\ C25_StopReason)
  /\ [][C25_HopStep]_vars
  /\ <>(mig.pc = "returned")

\* a walk round the cycle was stopped by the hop bound after 50 applications
C25_Witness ==
  /\ mig.pc = "returned"
  /\ mig.kd = CycleKind
  /\ Len(mig.applied) = HopBound
  /\ mig.cur_version # mig.target

\* the array holds an artifact with that id
Present(arr, id) == \E i \in DOMAIN arr : arr[i].artifact_id = id

\* a step keeps every stored artifact in the store, keeps every patch record,
\* and the history route still answers with the artifact's records
StepKeepsArtifacts ==
  /\ SubSeq(patches', 1, Len(patches)) = patches
  /\ \A i \in DOMAIN artifacts :
       LET id == artifacts[i].artifact_id
       IN /\ Present(artifacts', id)
          /\ (history(id).status = 200)'
          /\ \A k \in DOMAIN list_patches(id) :
               \E m \in DOMAIN (list_patches(id))' : (list_patches(id))'[m] = list_patches(id)[k]

\* C26 as stated: artifacts are only ever soft-deleted: no operation and no
\* consumed event, workspace.deleted included, physically removes a created
\* artifact; it stays in the store, live or with its deleted timestamp set,
\* and its patch history remains retrievable.
C26_OnlySoftDeleted == [][StepKeepsArtifacts]_vars

\* C26: no operation on artifacts (upsert, replace, patch, delete, reads)
\* physically removes a created artifact: every step that leaves the
\* workspace's parent document in place keeps every artifact in the store,
\* live or with its deleted timestamp set, with its patch history retrievable;
\* only the workspace.deleted event removes artifacts, all of them with the
\* parent document.
C26_OnlySoftDeletedWhileWorkspace == [][parent' => StepKeepsArtifacts]_vars

\* a patched artifact was soft-deleted and its history is still answered
C26_Witness ==
  \E i \in DOMAIN artifacts :
    /\ parent
    /\ artifacts[i].deleted_at
    /\ history(artifacts[i].artifact_id).status = 200
    /\ Len(history(artifacts[i].artifact_id).records) >= 1

\* caller c's patch commits its write in this step
PatchCommits(c) == call[c].pc = "patch_write" /\ call'[c].pc = "patch_record"

\* the write of a successful patch replaces the version the patch was computed
\* from, and leaves the patch applied to the payload it replaces
C27_PatchStep ==
  \A c \in Callers :
    PatchCommits(c) =>
      LET old == get_artifact(call[c].target)
          new == PickFrom(artifacts', call[c].target)
      IN /\ call[c].from_version = old.version
         /\ apply_patch(old.data, call[c].patch).ok
         /\ new.data = apply_patch(old.data, call[c].patch).data

\* C27: no patch is lost: every successful patch is computed from the payload
\* of the version it replaces, so that after two successful patches of one
\* artifact the stored payload is the result of applying both, one after the
\* other, in the order of their version increments.
C27_NoLostPatch == [][C27_PatchStep]_vars

\* C28: in every reachable state every patch record has to_version =
\* from_version + 1, no two records of one artifact share a from_version or a
\* to_version, and no record's to_version exceeds the stored version of its
\* artifact.
C28_PatchRecordsChain ==
  /\ \A i \in DOMAIN patches : patches[i].to_version = patches[i].from_version + 1
  /\ \A i, j \in DOMAIN patches :
       (i # j /\ patches[i].artifact_id = patches[j].artifact_id) =>
         /\ patches[i].from_version # patches[j].from_version
         /\ patches[i].to_version # patches[j].to_version
  /\ \A i \in DOMAIN patches :
       Present(artifacts, patches[i].artifact_id) =>
         patches[i].to_version <= get_artifact(patches[i].artifact_id).version

\* caller c's replace or patch performs its write in this step
WriteStep(c) == call[c].pc \in {"replace_write", "patch_write"} /\ call'[c] # call[c]

\* the write of a replace or patch leaves every soft-deleted artifact as it is
C29_FrozenStep ==
  \A c \in Callers :
    WriteStep(c) =>
      \A i \in DOMAIN artifacts :
        artifacts[i].deleted_at =>
          /\ i \in DOMAIN artifacts'
          /\ artifacts'[i].data = artifacts[i].data
          /\ artifacts'[i].version = artifacts[i].version
          /\ artifacts'[i].provenance = artifacts[i].provenance

\* C29: a soft-deleted artifact is frozen: once its deleted timestamp is set
\* no replace or patch call changes its payload, version or provenance, also
\* when the soft delete commits between the call's existence check and its
\* write.
C29_SoftDeletedFrozen == [][C29_FrozenStep]_vars

\* a list in ascending order of its keys, no key twice
SortedNoDup(xs) == \A i, j \in DOMAIN xs : i < j => Rank(xs[i]) < Rank(xs[j])

\* the four lists are pairwise disjoint, each sorted without duplicates, and
\* together hold exactly the natural keys of the two sides
DiffIsPartition ==
  LET d == run.diff
      keys == DocKeys(run.left_docs) \cup DocKeys(run.right_docs)
  IN /\ Elems(d.new) \cap Elems(d.updated) = {}
     /\ Elems(d.new) \cap Elems(d.unchanged) = {}
     /\ Elems(d.new) \cap Elems(d.retired) = {}
     /\ Elems(d.updated) \cap Elems(d.unchanged) = {}
     /\ Elems(d.updated) \cap Elems(d.retired) = {}
     /\ Elems(d.unchanged) \cap Elems(d.retired) = {}
     /\ SortedNoDup(d.new) /\ SortedNoDup(d.updated)
     /\ SortedNoDup(d.unchanged) /\ SortedNoDup(d.retired)
     /\ Elems(d.new) \cup Elems(d.updated) \cup Elems(d.unchanged) \cup Elems(d.retired) = keys

\* C30: the run diff is a partition: for every baseline and candidate id list
\* the function returns four lists new, updated, unchanged and retired that
\* are pairwise disjoint, each sorted without duplicates, whose union is the
\* set of natural keys occurring on either side, with a count summary equal to
\* the four list lengths.
C30_DiffIsPartition ==
  DiffEnded =>
    /\ run.pc = "returned"
    /\ DiffIsPartition
    /\ run.counts = _counts(run.diff)

====
